---- MODULE Spec2Model ----
(***************************************************************************)
(* Model of the ALMReady curve engine and scenario-shock engine.           *)
(*                                                                         *)
(*   backend/engine/core/curves.py        ForwardCurve, curve_from_long_df *)
(*   backend/engine/scenarios/apply.py    apply_parallel_shock(s)          *)
(*   backend/almready/scenarios/apply.py  _validate_curve_points_columns,  *)
(*                                        _rebuild_curves                  *)
(*   backend/engine/scenarios/shocks.py   ParallelShock                    *)
(*   backend/engine/services/market.py    ForwardCurveSet and its queries  *)
(*   backend/engine/core/daycount.py      normalize_daycount_base, yearfrac*)
(*   backend/engine/core/tenors.py        add_tenor                        *)
(*                                                                         *)
(* Python objects that can be aliased and mutated in place (DataFrames,    *)
(* lists of CurvePoint, ForwardCurve instances) live in a heap keyed by    *)
(* object identity; a ForwardCurveSet is a record of references into it.   *)
(* Rates are fixed-point integers in units of 1/RateScale, the year        *)
(* fractions of pillars are integers, dates are day numbers; query times,  *)
(* ln(DF) and queried rates are exact fractions. Where the rounding of     *)
(* float addition matters (SpecFloat) rates are binary64 values, and where *)
(* the spelling of a label matters it is a sequence of characters.         *)
(***************************************************************************)
EXTENDS Integers, Sequences, FiniteSets, TLC

VARIABLES
    heap,     \* object id -> object (table, list of points, curve)
    base,     \* the shared base ForwardCurveSet
    base0,    \* snapshot of the base set and of the objects it reaches, taken when it became the base
    frames,   \* per caller: the activation record of apply_parallel_shock
    batch,    \* per caller: the activation record of apply_parallel_shocks
    chain,    \* how many times a shocked set has been taken as the new base
    ctor,     \* a direct ForwardCurve(index_name, points) construction
    qry       \* the queries made of a curve or of a set, with what each returned or raised

vars == <<heap, base, base0, frames, batch, chain, ctor, qry>>

----------------------------------------------------------------------------
(* Bounds of the model *)

MaxRows == 3
MaxShocks == 2
MaxChain == 1
MaxPoints == 3
MaxQueries == 2
MaxPositions == 2

----------------------------------------------------------------------------
(* Values *)

\* float('nan') / None in a numeric column
NaN == -(2^20)

\* rates are integers in units of 1/RateScale (1e-5)
RateScale == 10 * 10000

IsNull(x) == x = NaN

\* float addition with NaN propagation
FAdd(x, y) == IF IsNull(x) \/ IsNull(y) THEN NaN ELSE x + y

\* str.strip() on the names the model uses
Strip(s) ==
    CASE s = " EUR " -> "EUR"
      [] s = " USD " -> "USD"
      [] s = "  " -> ""
      [] s = " 2y" -> "2y"
      [] s = " FLOAT " -> "FLOAT"
      [] OTHER -> s

\* str.lower() on the rate types the model uses
Lower(s) ==
    CASE s = "FLOAT" -> "float"
      [] s = "Float" -> "float"
      [] s = " FLOAT " -> " float "
      [] OTHER -> s

\* None / <NA> in a column or a list of text values
NA == "<NA>"

\* str.upper() on the tenor codes the model uses
Upper(s) ==
    CASE s = "2y" -> "2Y"
      [] s = " 2y" -> " 2Y"
      [] s = "on" -> "ON"
      [] OTHER -> s

\* Python's ordering of the strings the model uses (sorted(...))
NameOrder == <<"", "  ", " EUR ", " USD ", "EUR", "GBP", "USD">>

SortedNames(S) == SelectSeq(NameOrder, LAMBDA n : n \in S)

SeqRange(s) == {s[i] : i \in 1..Len(s)}

EmptyMap == [n \in {} |-> 0]

\* Times, ln(DF) and queried rates are exact fractions n/d in lowest terms
\* (d > 0); ln(DF) and rates are counted in units of 1/RateScale. The
\* rounding of binary floating point is not represented.
Abs(k) == IF k < 0 THEN -k ELSE k

RECURSIVE Gcd(_, _)
Gcd(a, b) == IF b = 0 THEN a ELSE Gcd(b, a % b)

Rat(n, d) ==
    LET g == Gcd(Abs(n), Abs(d))
        sgn == IF d < 0 THEN -1 ELSE 1
    IN  [n |-> sgn * (n \div g), d |-> sgn * (d \div g)]

RInt(k) == [n |-> k, d |-> 1]

RNeg(x) == [n |-> -x.n, d |-> x.d]

RAdd(x, y) ==
    LET g == Gcd(x.d, y.d)
    IN  Rat(x.n * (y.d \div g) + y.n * (x.d \div g), (x.d \div g) * y.d)

RSub(x, y) == RAdd(x, RNeg(y))

\* factors common to a numerator and the other denominator are removed first
RMul(x, y) ==
    LET g1 == Gcd(Abs(x.n), y.d)
        g2 == Gcd(Abs(y.n), x.d)
    IN  IF x.n = 0 \/ y.n = 0 THEN RInt(0)
        ELSE Rat((x.n \div g1) * (y.n \div g2), (x.d \div g2) * (y.d \div g1))

\* y # 0
RDiv(x, y) == RMul(x, Rat(y.d, y.n))

RLt(x, y) == x.n * y.d < y.n * x.d

RLe(x, y) == x.n * y.d <= y.n * x.d

----------------------------------------------------------------------------
(* Python floats: IEEE 754 binary64 *)

\* the significand of a binary64 has 53 bits
Precision == 53

\* A float is held exactly, as sign * mag * 2^-GridBits with mag a natural
\* number written in limbs of LimbBits bits, lowest limb first, the highest
\* limb holding the integer part. Every binary64 between 2^-19 and 2^12 in
\* magnitude is such a number, and so are the sums and differences of such
\* numbers; rates and shifts lie well inside (1 bp is about 2^-13.3).
LimbBits == 3 * 4

LimbBase == 2^LimbBits

FractionLimbs == 3 + 4

GridBits == FractionLimbs * LimbBits

Limbs == 1..(FractionLimbs + 1)

Float(sign, mag) == [sign |-> sign, mag |-> mag]

NoLimbs == [j \in Limbs |-> 0]

FloatZero == Float(1, NoLimbs)

\* bit i of a magnitude, bit 0 the lowest
BitOf(mag, i) == (mag[(i \div LimbBits) + 1] \div 2^(i % LimbBits)) % 2

\* the number of bits of a magnitude up to its highest 1
BitLength(mag) ==
    IF mag = NoLimbs THEN 0
    ELSE 1 + CHOOSE i \in 0..(LimbBits * (FractionLimbs + 1) - 1) :
                 /\ BitOf(mag, i) = 1
                 /\ \A k \in (i + 1)..(LimbBits * (FractionLimbs + 1) - 1) : BitOf(mag, k) = 0

\* the carry into limb j of a + b
RECURSIVE CarryInto(_, _, _)
CarryInto(a, b, j) ==
    IF j = 1 THEN 0 ELSE (a[j - 1] + b[j - 1] + CarryInto(a, b, j - 1)) \div LimbBase

AddMag(a, b) == [j \in Limbs |-> (a[j] + b[j] + CarryInto(a, b, j)) % LimbBase]

\* the borrow from limb j of a - b, a >= b
RECURSIVE BorrowFrom(_, _, _)
BorrowFrom(a, b, j) ==
    IF j = 1 THEN 0 ELSE (IF a[j - 1] - b[j - 1] - BorrowFrom(a, b, j - 1) < 0 THEN 1 ELSE 0)

SubMag(a, b) == [j \in Limbs |-> (a[j] - b[j] - BorrowFrom(a, b, j) + LimbBase) % LimbBase]

LessMag(a, b) ==
    \E j \in Limbs : a[j] < b[j] /\ \A k \in Limbs : k > j => a[k] = b[k]

\* 2^i as a magnitude
PowerOfTwo(i) == [j \in Limbs |-> IF j = (i \div LimbBits) + 1 THEN 2^(i % LimbBits) ELSE 0]

\* a magnitude with its lowest n bits cleared
ClearLow(mag, n) ==
    [j \in Limbs |->
        IF LimbBits * j <= n THEN 0
        ELSE IF LimbBits * (j - 1) >= n THEN mag[j]
        ELSE (mag[j] \div 2^(n - LimbBits * (j - 1))) * 2^(n - LimbBits * (j - 1))]

\* round to nearest, ties to even, at p significant bits: the nearest such
\* number to the exact value, which is mag, or a little more than mag when
\* rest is TRUE
RoundToPrecision(p, sign, mag, rest) ==
    LET drop == BitLength(mag) - p
        sticky == rest \/ \E i \in 0..(drop - 2) : BitOf(mag, i) = 1
        up == BitOf(mag, drop - 1) = 1 /\ (sticky \/ BitOf(mag, drop) = 1)
    IN  IF mag = NoLimbs THEN FloatZero
        ELSE IF drop <= 0 THEN Float(sign, mag)
        ELSE IF up THEN Float(sign, AddMag(ClearLow(mag, drop), PowerOfTwo(drop)))
        ELSE Float(sign, ClearLow(mag, drop))

\* the rounding of a binary32, whose significand has 24 bits
RoundToSingle(sign, mag, rest) == RoundToPrecision(24, sign, mag, rest)

\* the rounding of a binary64
RoundToFloat(sign, mag, rest) == RoundToPrecision(Precision, sign, mag, rest)

\* float + float: the exact sum, rounded
FloatAdd(x, y) ==
    IF x.sign = y.sign THEN RoundToFloat(x.sign, AddMag(x.mag, y.mag), FALSE)
    ELSE IF x.mag = y.mag THEN FloatZero
    ELSE IF LessMag(x.mag, y.mag) THEN RoundToFloat(y.sign, SubMag(y.mag, x.mag), FALSE)
    ELSE RoundToFloat(x.sign, SubMag(x.mag, y.mag), FALSE)

\* what is left of r / d after the first k limbs of its fraction, 0 <= r < d
RECURSIVE FracRest(_, _, _)
FracRest(r, d, k) == IF k = 0 THEN r ELSE (FracRest(r, d, k - 1) * LimbBase) % d

\* limb k of the fraction of r / d, limb 1 the first after the point
FracLimb(r, d, k) == (FracRest(r, d, k - 1) * LimbBase) \div d

\* float(n) / float(d) for integers n and d > 0 that floats hold exactly, and
\* the float a decimal literal n/d is read as: the quotient correctly rounded
FloatOfRatio(n, d) ==
    LET a == Abs(n)
        mag == [j \in Limbs |-> IF j = FractionLimbs + 1 THEN a \div d
                                ELSE FracLimb(a % d, d, FractionLimbs + 1 - j)]
    IN  RoundToFloat(IF n < 0 THEN -1 ELSE 1, mag, FracRest(a % d, d, FractionLimbs) # 0)

\* ParallelShock.shift_decimal as a float: float(shift_bps) / 10000.0
ShiftDecimalFloat(shock) == FloatOfRatio(shock.shift_bps, 10000)

----------------------------------------------------------------------------
(* The heap *)

\* Object ids are handed out smallest-free-first.
NewId(h) ==
    CHOOSE i \in 1..(Cardinality(DOMAIN h) + 1) :
        i \notin DOMAIN h /\ \A j \in 1..(i - 1) : j \in DOMAIN h

Alloc(h, obj) == [i \in DOMAIN h \cup {NewId(h)} |-> IF i \in DOMAIN h THEN h[i] ELSE obj]

Restrict(h, ids) == [i \in DOMAIN h \cap ids |-> h[i]]

EmptyHeap == [i \in {} |-> 0]

\* pandas.DataFrame
Table(cols, rows) == [kind |-> "table", columns |-> cols, rows |-> rows]

\* list[CurvePoint]
PointList(items) == [kind |-> "list", items |-> items]

CurvePoint(yf, r, tenor, tenor_date) ==
    [year_frac |-> yf, rate |-> r, tenor |-> tenor, tenor_date |-> tenor_date]

----------------------------------------------------------------------------
(* engine/core/curves.py *)

\* list.sort(key=lambda p: p.year_frac): stable, ascending
InsertByYearFrac(s, p) ==
    LET k == Cardinality({i \in 1..Len(s) : s[i].year_frac <= p.year_frac})
    IN  SubSeq(s, 1, k) \o <<p>> \o SubSeq(s, k + 1, Len(s))

\* no sort: the points stay in the order given
SortByYearFracSkipped(s) == s

RECURSIVE SortByYearFrac(_)
SortByYearFrac(s) ==
    IF s = <<>> THEN <<>>
    ELSE InsertByYearFrac(SortByYearFrac(SubSeq(s, 1, Len(s) - 1)), s[Len(s)])

\* the validation with < for <=: equal year fractions pass
Decreasing(s) == \E i \in 2..Len(s) : s[i].year_frac < s[i - 1].year_frac

\* the validation loop of __post_init__: prev is not None and p.year_frac <= prev
NonIncreasing(s) == \E i \in 2..Len(s) : s[i].year_frac <= s[i - 1].year_frac

\* ForwardCurve.__post_init__ on the list object lid: the list is sorted in
\* place before it is validated, so a failed validation leaves it sorted.
PostInit(h, lid) ==
    IF h[lid].items = <<>>
    THEN [heap |-> h, error |-> "InvalidCurve"]
    ELSE LET h2 == [h EXCEPT ![lid].items = SortByYearFrac(h[lid].items)]
         IN  [heap |-> h2,
              error |-> IF NonIncreasing(h2[lid].items) THEN "InvalidCurve" ELSE "ok"]

\* ForwardCurve(index_name=..., points=<list lid>): the dataclass stores the
\* reference to the caller's list and runs __post_init__ on it.
NewForwardCurve(h, index_name, lid) ==
    LET r == PostInit(h, lid)
    IN  IF r.error # "ok"
        THEN [heap |-> r.heap, error |-> r.error, id |-> 0]
        ELSE [heap |-> Alloc(r.heap, [kind |-> "curve", index_name |-> index_name, points |-> lid]),
              error |-> "ok",
              id |-> NewId(r.heap)]

RequiredCols == <<"IndexName", "Tenor", "FwdRate", "TenorDate", "YearFrac">>

MissingCols(t) == SelectSeq(RequiredCols, LAMBDA c : c \notin t.columns)

\* df[col].astype(str) on an IndexName cell; the cells are text (the reader
\* writes them with astype(str).str.strip()), which astype(str) returns as is.
AsStr(v) == v

\* curve_from_long_df(df_long, index_name) with the default column names
CurveFromLongDf(h, tid, index_name) ==
    LET t == h[tid]
        sub == SelectSeq(t.rows, LAMBDA r : r.IndexName = index_name)
        points == [i \in 1..Len(sub) |->
                      CurvePoint(sub[i].YearFrac, sub[i].FwdRate,
                                 Upper(Strip(sub[i].Tenor)), sub[i].TenorDate)]
        fail(e) == [heap |-> h, error |-> e, id |-> 0]
    IN  IF MissingCols(t) # <<>> THEN fail("InvalidCurveTable")
        ELSE IF sub = <<>> THEN fail("NoPointsFound")
        ELSE IF \E i \in 1..Len(sub) : IsNull(sub[i].YearFrac) THEN fail("NullYearFrac")
        ELSE IF \E i \in 1..Len(sub) : IsNull(sub[i].FwdRate) THEN fail("NullFwdRate")
        ELSE LET h1 == Alloc(h, PointList(points))
                 r == NewForwardCurve(h1, index_name, NewId(h))
             IN  IF r.error # "ok" THEN fail(r.error) ELSE r

\* ForwardCurve.year_fracs
YearFracs(curve_points) == [i \in 1..Len(curve_points) |-> RInt(curve_points[i].year_frac)]

\* ForwardCurve._pillar_ln_dfs: ln(DF_i) = -r_i * T_i
PillarLnDfs(curve_points) ==
    [i \in 1..Len(curve_points) |-> RInt((-curve_points[i].rate) * curve_points[i].year_frac)]

\* the weight is taken from the segment's own end: w = (x1 - x) / (x1 - x0)
InterpLinearReversed(x, x0, x1, y0, y1) ==
    IF x1 = x0 THEN y1
    ELSE RAdd(y0, RMul(RDiv(RSub(x1, x), RSub(x1, x0)), RSub(y1, y0)))

\* ForwardCurve._interp_linear
InterpLinear(x, x0, x1, y0, y1) ==
    IF x1 = x0 THEN y1
    ELSE RAdd(y0, RMul(RDiv(RSub(x, x0), RSub(x1, x0)), RSub(y1, y0)))

\* the search always stops at the second pillar: the first segment is used
BisectFirstSegment(xs, t) == 1

\* bisect_left(xs, t) on a sorted list: the number of elements < t, which is
\* the 0-based position of the first element >= t
BisectLeft(xs, t) == Cardinality({i \in 1..Len(xs) : RLt(xs[i], t)})

\* a discount factor is carried by its logarithm: exp and log
Exp(x) == [ln |-> x]

Log(df) == df.ln

\* beyond the last pillar the last zero rate is kept: ln DF(t) = -r_n * t
ExtrapolateFlatZero(t, xs, ln_dfs) ==
    LET n == Len(xs) IN RMul(t, RDiv(ln_dfs[n], xs[n]))

\* discount_factor, t >= xs[-1]: the slope of the last segment is continued
ExtrapolateLastSegment(t, xs, ln_dfs) ==
    LET n == Len(xs) IN InterpLinear(t, xs[n - 1], xs[n], ln_dfs[n - 1], ln_dfs[n])

\* at or before the first pillar the first pillar's ln(DF) is used as it is
BeforeFirstFlat(t, xs, ln_dfs) == ln_dfs[1]

\* discount_factor, t <= xs[0] and the single-pillar case: the line from the
\* anchor (0, 0) to the first pillar
BeforeFirstPillar(t, xs, ln_dfs) == InterpLinear(t, RInt(0), xs[1], RInt(0), ln_dfs[1])

\* ForwardCurve.discount_factor(t) on the curve's (sorted) points
DiscountFactor(curve_points, t) ==
    LET xs == YearFracs(curve_points)
        ln_dfs == PillarLnDfs(curve_points)
        n == Len(xs)
        j == BisectLeft(xs, t) + 1
    IN  IF RLe(t, RInt(0)) THEN Exp(RInt(0))
        ELSE IF n = 1 THEN Exp(BeforeFirstPillar(t, xs, ln_dfs))
        ELSE IF RLe(t, xs[1]) THEN Exp(BeforeFirstPillar(t, xs, ln_dfs))
        ELSE IF RLe(xs[n], t) THEN Exp(ExtrapolateLastSegment(t, xs, ln_dfs))
        ELSE Exp(InterpLinear(t, xs[j - 1], xs[j], ln_dfs[j - 1], ln_dfs[j]))

\* t <= 0 returns the last pillar's rate
ZeroRateAtOriginLast(curve_points) == RInt(curve_points[Len(curve_points)].rate)

\* zero_rate, t <= 0: float(self.points[0].rate)
ZeroRateAtOrigin(curve_points) == RInt(curve_points[1].rate)

\* ForwardCurve.zero_rate(t); rate(t) is an alias
ZeroRate(curve_points, t) ==
    IF RLe(t, RInt(0)) THEN ZeroRateAtOrigin(curve_points)
    ELSE RDiv(RNeg(Log(DiscountFactor(curve_points, t))), t)

----------------------------------------------------------------------------
(* engine/core/daycount.py *)

\* datetime.date: a date is its day number counted from 1970-01-01; year,
\* month and day are those of the proleptic Gregorian calendar.
DayOfEra(n) == (n + 719468) % 146097

YearOfEra(n) ==
    LET doe == DayOfEra(n)
    IN  (doe - (doe \div 1460) + (doe \div 36524) - (doe \div 146096)) \div 365

\* day of the year that starts on 1 March
DayOfMarchYear(n) ==
    LET yoe == YearOfEra(n)
    IN  DayOfEra(n) - (365 * yoe + (yoe \div 4) - (yoe \div 100))

MonthOf(n) ==
    LET mp == (5 * DayOfMarchYear(n) + 2) \div 153
    IN  IF mp < 10 THEN mp + 3 ELSE mp - 9

DayOf(n) ==
    LET mp == (5 * DayOfMarchYear(n) + 2) \div 153
    IN  DayOfMarchYear(n) - ((153 * mp + 2) \div 5) + 1

YearOf(n) ==
    YearOfEra(n) + 400 * ((n + 719468) \div 146097) + (IF MonthOf(n) <= 2 THEN 1 ELSE 0)

\* date(y, m, d)
Date(y, m, d) ==
    LET yy == IF m <= 2 THEN y - 1 ELSE y
        era == yy \div 400
        yoe == yy - era * 400
        mp == IF m > 2 THEN m - 3 ELSE m + 9
        doy == ((153 * mp + 2) \div 5) + d - 1
        doe == yoe * 365 + (yoe \div 4) - (yoe \div 100) + doy
    IN  era * 146097 + doe - 719468

\* is_leap_year
IsLeapYear(year) == (year % 4 = 0 /\ year % 100 # 0) \/ (year % 400 = 0)

\* _last_day_of_month
LastDayOfMonth(year, month) ==
    IF month = 2 THEN (IF IsLeapYear(year) THEN 29 ELSE 28)
    ELSE IF month \in {1, 3, 5, 7, 8, 10, 12} THEN 31
    ELSE 30

\* _is_last_day_of_february
IsLastDayOfFebruary(n) == MonthOf(n) = 2 /\ DayOf(n) = LastDayOfMonth(YearOf(n), MonthOf(n))

\* The labels the model uses, spelled out character by character: a string
\* is read through its characters.
Spelling ==
    ("ACT/360" :> <<"A", "C", "T", "/", "3", "6", "0">>)
    @@ ("ACT/365" :> <<"A", "C", "T", "/", "3", "6", "5">>)
    @@ ("ACT/ACT" :> <<"A", "C", "T", "/", "A", "C", "T">>)
    @@ ("30/360" :> <<"3", "0", "/", "3", "6", "0">>)
    @@ ("ACT360" :> <<"A", "C", "T", "3", "6", "0">>)
    @@ ("A/365" :> <<"A", "/", "3", "6", "5">>)
    @@ ("30E/360" :> <<"3", "0", "E", "/", "3", "6", "0">>)
    @@ ("ACTUAL/ACTUAL" :> <<"A", "C", "T", "U", "A", "L", "/", "A", "C", "T", "U", "A", "L">>)
    @@ (" act-360 " :> <<" ", "a", "c", "t", "-", "3", "6", "0", " ">>)
    @@ ("act/act" :> <<"a", "c", "t", "/", "a", "c", "t">>)
    @@ ("30/360 (US)" :> <<"3", "0", "/", "3", "6", "0", " ", "(", "U", "S", ")">>)
    @@ ("Actual/365 Fixed" :> <<"A", "c", "t", "u", "a", "l", "/", "3", "6", "5", " ", "F", "i", "x", "e", "d">>)
    @@ ("A-360" :> <<"A", "-", "3", "6", "0">>)
    @@ ("ACT/3-60" :> <<"A", "C", "T", "/", "3", "-", "6", "0">>)
    @@ ("30/360E" :> <<"3", "0", "/", "3", "6", "0", "E">>)
    @@ ("30/360 NASD" :> <<"3", "0", "/", "3", "6", "0", " ", "N", "A", "S", "D">>)
    @@ ("[30/360]" :> <<"[", "3", "0", "/", "3", "6", "0", "]">>)
    @@ ("AUSCT/360" :> <<"A", "U", "S", "C", "T", "/", "3", "6", "0">>)
    @@ ("ACT/365.25" :> <<"A", "C", "T", "/", "3", "6", "5", ".", "2", "5">>)
    @@ ("BUS/252" :> <<"B", "U", "S", "/", "2", "5", "2">>)
    @@ ("" :> <<>>)

Lowercase == <<"a", "b", "c", "d", "e", "f", "g", "h", "i", "j", "k", "l", "m",
               "n", "o", "p", "q", "r", "s", "t", "u", "v", "w", "x", "y", "z">>

Uppercase == <<"A", "B", "C", "D", "E", "F", "G", "H", "I", "J", "K", "L", "M",
               "N", "O", "P", "Q", "R", "S", "T", "U", "V", "W", "X", "Y", "Z">>

\* str.upper(), one character
UpperChar(c) ==
    IF \E i \in 1..26 : Lowercase[i] = c
    THEN Uppercase[CHOOSE i \in 1..26 : Lowercase[i] = c]
    ELSE c

\* str.upper()
UpperChars(v) == [i \in 1..Len(v) |-> UpperChar(v[i])]

\* str.strip(): the blanks at both ends go
RECURSIVE StripChars(_)
StripChars(v) ==
    IF v = <<>> THEN v
    ELSE IF Head(v) = " " THEN StripChars(Tail(v))
    ELSE IF v[Len(v)] = " " THEN StripChars(SubSeq(v, 1, Len(v) - 1))
    ELSE v

\* str.replace(old, new): every occurrence, found from the left, none
\* overlapping another
RECURSIVE ReplaceChars(_, _, _)
ReplaceChars(v, old, new) ==
    IF Len(v) < Len(old) THEN v
    ELSE IF SubSeq(v, 1, Len(old)) = old
         THEN new \o ReplaceChars(SubSeq(v, Len(old) + 1, Len(v)), old, new)
    ELSE <<Head(v)>> \o ReplaceChars(Tail(v), old, new)

\* "".join(characters)
RECURSIVE Join(_)
Join(v) == IF v = <<>> THEN "" ELSE Head(v) \o Join(Tail(v))

\* hyphens are removed as blanks are
HyphensDropped(v) == ReplaceChars(ReplaceChars(v, <<" ">>, <<>>), <<"-">>, <<>>)

\* v.replace(" ", "").replace("-", "/")
BasicNormalization(v) == ReplaceChars(ReplaceChars(v, <<" ">>, <<>>), <<"-">>, <<"/">>)

\* for ch in ("(", ")", "[", "]"): v = v.replace(ch, "")
WithoutBrackets(v) == SelectSeq(v, LAMBDA c : c \notin {"(", ")", "[", "]"})

\* the 30E notation and the suffixes US, NASD, FIXED
WithoutSuffixes(v) ==
    LET v1 == ReplaceChars(v, <<"3", "0", "/", "3", "6", "0", "E">>,
                              <<"3", "0", "E", "/", "3", "6", "0">>)
        v2 == ReplaceChars(v1, <<"U", "S">>, <<>>)
        v3 == ReplaceChars(v2, <<"N", "A", "S", "D">>, <<>>)
    IN  ReplaceChars(v3, <<"F", "I", "X", "E", "D">>, <<"F">>)

\* the label as normalize_daycount_base looks it up: str(value).strip().upper()
\* and the replacements
CleanedBase(value) ==
    Join(WithoutSuffixes(WithoutBrackets(BasicNormalization(
        UpperChars(StripChars(Spelling[value]))))))

\* DAYCOUNT_BASE_MAP
DaycountBaseMap ==
    [k \in {"ACT/360", "ACT360", "A/360", "ACTUAL/360", "ACTUAL/360.0"} |-> "ACT/360"]
    @@ [k \in {"ACT/365", "ACT365", "A/365", "ACTUAL/365", "ACTUAL/365F", "ACT/365F"} |-> "ACT/365"]
    @@ [k \in {"ACT/ACT", "ACTACT", "A/A", "ACTUAL/ACTUAL", "ACTUAL/ACT", "ACT/ACTISDA",
               "ACTUAL/ACTUALISDA"} |-> "ACT/ACT"]
    @@ [k \in {"30/360", "30360", "30E/360", "30E360", "30E/360ISDA", "30E360ISDA"} |-> "30/360"]

\* normalize_daycount_base: [error, value]
NormalizeDaycountBase(value) ==
    IF value = NA THEN [error |-> "UnsupportedConvention", value |-> ""]
    ELSE IF CleanedBase(value) \in DOMAIN DaycountBaseMap
    THEN [error |-> "ok", value |-> DaycountBaseMap[CleanedBase(value)]]
    ELSE [error |-> "UnsupportedConvention", value |-> ""]

DaysInYear(y) == IF IsLeapYear(y) THEN 366 ELSE 365

\* yearfrac_act_act_isda, d0 <= d1
YearfracActActIsda(d0, d1) ==
    IF d0 = d1 THEN RInt(0)
    ELSE IF YearOf(d0) = YearOf(d1) THEN Rat(d1 - d0, DaysInYear(YearOf(d0)))
    ELSE LET head == Rat(Date(YearOf(d0) + 1, 1, 1) - d0, DaysInYear(YearOf(d0)))
             whole == IF YearOf(d1) - YearOf(d0) - 1 > 0 THEN YearOf(d1) - YearOf(d0) - 1 ELSE 0
             tail == Rat(d1 - Date(YearOf(d1), 1, 1), DaysInYear(YearOf(d1)))
         IN  RAdd(RAdd(head, RInt(whole)), tail)

\* the day of d1 is left alone when d1 is the last day of February
Yearfrac30360NoFebruaryEnd(d0, d1) ==
    LET d0_day1 == IF IsLastDayOfFebruary(d0) THEN 30 ELSE DayOf(d0)
        d0_day == IF d0_day1 = 31 THEN 30 ELSE d0_day1
        d1_day == IF DayOf(d1) = 31 /\ d0_day \in {30, 31} THEN 30 ELSE DayOf(d1)
    IN  Rat(360 * (YearOf(d1) - YearOf(d0)) + 30 * (MonthOf(d1) - MonthOf(d0))
            + (d1_day - d0_day), 360)

\* yearfrac_30_360_us, d0 <= d1
Yearfrac30360Us(d0, d1) ==
    LET d0_day1 == IF IsLastDayOfFebruary(d0) THEN 30 ELSE DayOf(d0)
        d1_day1 == IF IsLastDayOfFebruary(d1) /\ d0_day1 \in {30, 31} THEN 30 ELSE DayOf(d1)
        d0_day == IF d0_day1 = 31 THEN 30 ELSE d0_day1
        d1_day == IF d1_day1 = 31 /\ d0_day \in {30, 31} THEN 30 ELSE d1_day1
        days_360 == 360 * (YearOf(d1) - YearOf(d0)) + 30 * (MonthOf(d1) - MonthOf(d0))
                    + (d1_day - d0_day)
    IN  Rat(days_360, 360)

\* the order of the two dates is not checked
YearfracUnordered(d0, d1, daycount) ==
    [error |-> "ok",
     value |-> IF d1 < d0 THEN RInt(0)
               ELSE IF daycount = "ACT/360" THEN Rat(d1 - d0, 360)
               ELSE IF daycount = "ACT/ACT" THEN YearfracActActIsda(d0, d1)
               ELSE IF daycount = "30/360" THEN Yearfrac30360Us(d0, d1)
               ELSE Rat(d1 - d0, 365)]

\* yearfrac(d0, d1, base) for a canonical base: [error, value]
Yearfrac(d0, d1, daycount) ==
    IF d1 < d0 THEN [error |-> "InvalidDateOrder", value |-> RInt(0)]
    ELSE IF daycount = "ACT/360" THEN [error |-> "ok", value |-> Rat(d1 - d0, 360)]
    ELSE IF daycount = "ACT/365" THEN [error |-> "ok", value |-> Rat(d1 - d0, 365)]
    ELSE IF daycount = "ACT/ACT" THEN [error |-> "ok", value |-> YearfracActActIsda(d0, d1)]
    ELSE IF daycount = "30/360" THEN [error |-> "ok", value |-> Yearfrac30360Us(d0, d1)]
    ELSE [error |-> "UnsupportedConvention", value |-> RInt(0)]

----------------------------------------------------------------------------
(* engine/core/tenors.py *)

\* The tenor codes the model uses, character by character.
TenorSpelling ==
    ("ON" :> <<"O", "N">>)
    @@ ("O/N" :> <<"O", "/", "N">>)
    @@ ("1D" :> <<"1", "D">>)
    @@ (" on " :> <<" ", "o", "n", " ">>)
    @@ ("1d" :> <<"1", "d">>)
    @@ ("1W" :> <<"1", "W">>)
    @@ ("2w" :> <<"2", "w">>)
    @@ ("3M" :> <<"3", "M">>)
    @@ ("5Y" :> <<"5", "Y">>)
    @@ ("12M" :> <<"1", "2", "M">>)
    @@ ("18m" :> <<"1", "8", "m">>)
    @@ ("0M" :> <<"0", "M">>)
    @@ ("-3M" :> <<"-", "3", "M">>)
    @@ ("-1Y" :> <<"-", "1", "Y">>)
    @@ ("+1Y" :> <<"+", "1", "Y">>)
    @@ ("1 M" :> <<"1", " ", "M">>)
    @@ ("XYZ" :> <<"X", "Y", "Z">>)
    @@ ("2D" :> <<"2", "D">>)
    @@ ("M" :> <<"M">>)
    @@ ("XM" :> <<"X", "M">>)
    @@ ("W" :> <<"W">>)
    @@ ("1.5Y" :> <<"1", ".", "5", "Y">>)
    @@ ("" :> <<>>)

Digits == <<"0", "1", "2", "3", "4", "5", "6", "7", "8", "9">>

DigitValue(c) == (CHOOSE i \in 1..Len(Digits) : Digits[i] = c) - 1

RECURSIVE DecimalValue(_)
DecimalValue(v) ==
    IF v = <<>> THEN 0
    ELSE DecimalValue(SubSeq(v, 1, Len(v) - 1)) * Len(Digits) + DigitValue(v[Len(v)])

\* int(text): blanks around the number are ignored, one sign is allowed, and
\* what remains must be decimal digits, at least one: [error, value]
ParseInt(v) ==
    LET w == StripChars(v)
        signed == w # <<>> /\ Head(w) \in {"+", "-"}
        body == IF signed THEN Tail(w) ELSE w
    IN  IF body = <<>> \/ \E i \in 1..Len(body) : body[i] \notin SeqRange(Digits)
        THEN [error |-> "UnsupportedTenor", value |-> 0]
        ELSE [error |-> "ok",
              value |-> IF signed /\ Head(w) = "-" THEN -DecimalValue(body)
                        ELSE DecimalValue(body)]

\* the day of the month is carried over as it is
AddMonthsUnclamped(d, n) ==
    LET total == 12 * YearOf(d) + (MonthOf(d) - 1) + n
    IN  Date(total \div 12, (total % 12) + 1, DayOf(d))

\* d + relativedelta(months=n): the month is moved and the day is kept, or is
\* the last day of the month reached when that month is shorter
AddMonths(d, n) ==
    LET total == 12 * YearOf(d) + (MonthOf(d) - 1) + n
        year == total \div 12
        month == (total % 12) + 1
        last == LastDayOfMonth(year, month)
    IN  Date(year, month, IF DayOf(d) > last THEN last ELSE DayOf(d))

\* d + relativedelta(years=n)
AddYears(d, n) ==
    LET last == LastDayOfMonth(YearOf(d) + n, MonthOf(d))
    IN  Date(YearOf(d) + n, MonthOf(d), IF DayOf(d) > last THEN last ELSE DayOf(d))

\* add_tenor(d, tenor): [error, value]
AddTenor(d, tenor) ==
    LET t == UpperChars(StripChars(TenorSpelling[tenor]))
        suffix == IF t = <<>> THEN "" ELSE t[Len(t)]
        n == ParseInt(SubSeq(t, 1, Len(t) - 1))
        to(date) == IF n.error # "ok" THEN [error |-> n.error, value |-> 0]
                    ELSE [error |-> "ok", value |-> date]
    IN  IF Join(t) \in {"ON", "O/N", "1D"} THEN [error |-> "ok", value |-> d + 1]
        ELSE IF suffix = "W" THEN to(d + 7 * n.value)
        ELSE IF suffix = "M" THEN to(AddMonths(d, n.value))
        ELSE IF suffix = "Y" THEN to(AddYears(d, n.value))
        ELSE [error |-> "UnsupportedTenor", value |-> 0]

----------------------------------------------------------------------------
(* almready/scenarios/apply.py: the curve utilities *)

\* only the two columns apply_parallel_shock itself reads are required
ValidateIndexAndRateOnly(t) == SelectSeq(<<"IndexName", "FwdRate">>, LAMBDA c : c \notin t.columns)

\* _validate_curve_points_columns: the missing columns, in the order of the
\* required list; the call raises iff the result is non-empty.
ValidateCurvePointsColumns(t) == MissingCols(t)

TableIndexes(t) == {AsStr(t.rows[i].IndexName) : i \in 1..Len(t.rows)}

\* the loop of _rebuild_curves over the sorted index names
RECURSIVE RebuildLoop(_, _, _, _)
RebuildLoop(h, tid, indexes, curves) ==
    IF indexes = <<>>
    THEN [heap |-> h, error |-> "ok", curves |-> curves]
    ELSE LET r == CurveFromLongDf(h, tid, Head(indexes))
         IN  IF r.error # "ok"
             THEN [heap |-> h, error |-> r.error, curves |-> curves]
             ELSE RebuildLoop(r.heap, tid, Tail(indexes),
                              [n \in DOMAIN curves \cup {Head(indexes)} |->
                                  IF n = Head(indexes) THEN r.id ELSE curves[n]])

\* _rebuild_curves(df_points)
RebuildCurves(h, tid) == RebuildLoop(h, tid, SortedNames(TableIndexes(h[tid])), EmptyMap)

----------------------------------------------------------------------------
(* engine/scenarios/shocks.py *)

ParallelShock(name, shift_bps) == [name |-> name, shift_bps |-> shift_bps]

\* ParallelShock.shift_decimal: float(shift_bps) / 10000.0, in rate units
ShiftDecimal(shock) == (shock.shift_bps * RateScale) \div 10000

----------------------------------------------------------------------------
(* engine/services/market.py: ForwardCurveSet, a record of references *)

ForwardCurveSet(analysis_date, daycount, points, curves) ==
    [analysis_date |-> analysis_date, base |-> daycount, points |-> points, curves |-> curves]

NoSet == ForwardCurveSet(0, "", 0, EmptyMap)

CurveIds(s) == {s.curves[n] : n \in DOMAIN s.curves}

\* every object reachable from a set: its table, its curves, their point lists
SetIds(h, s) ==
    (IF s.points = 0 THEN {} ELSE {s.points})
    \cup CurveIds(s)
    \cup {h[c].points : c \in CurveIds(s) \cap DOMAIN h}

\* the value of a set: what its references point to
Deref(h, s) ==
    [analysis_date |-> s.analysis_date,
     base |-> s.base,
     points |-> h[s.points],
     curves |-> [n \in DOMAIN s.curves |->
                    [index_name |-> h[s.curves[n]].index_name,
                     points |-> h[h[s.curves[n]].points].items]]]

----------------------------------------------------------------------------
(* engine/scenarios/apply.py *)

NoError == [kind |-> "none", items |-> <<>>, available |-> <<>>]

Error(kind, items, available) == [kind |-> kind, items |-> items, available |-> available]

\* apply_to: None, or an iterable of names (its order and repetitions are
\* lost in the set comprehension of _normalise_apply_to)
ApplyToNone == [isNone |-> TRUE, names |-> {}]

ApplyToNames(names) == [isNone |-> FALSE, names |-> names]

\* unknown names are dropped instead of reported
NormaliseApplyToLenient(apply_to, available_indexes) ==
    IF apply_to.isNone
    THEN [error |-> NoError, selected |-> available_indexes]
    ELSE LET selected == {Strip(ix) : ix \in {n \in apply_to.names : Strip(n) # ""}}
         IN  IF selected = {}
             THEN [error |-> Error("EmptyShockTarget", <<>>, <<>>), selected |-> {}]
             ELSE [error |-> NoError, selected |-> selected \cap available_indexes]

\* an empty selection is taken to mean every index
NormaliseApplyToEmptyIsAll(apply_to, available_indexes) ==
    LET selected == {Strip(ix) : ix \in {n \in apply_to.names : Strip(n) # ""}}
        unknown == SortedNames(selected \ available_indexes)
    IN  IF apply_to.isNone \/ selected = {}
        THEN [error |-> NoError, selected |-> available_indexes]
        ELSE IF unknown # <<>>
        THEN [error |-> Error("UnknownIndex", unknown, SortedNames(available_indexes)),
              selected |-> {}]
        ELSE [error |-> NoError, selected |-> selected]

\* _normalise_apply_to(apply_to, available_indexes)
NormaliseApplyTo(apply_to, available_indexes) ==
    IF apply_to.isNone
    THEN [error |-> NoError, selected |-> available_indexes]
    ELSE LET selected == {Strip(ix) : ix \in {n \in apply_to.names : Strip(n) # ""}}
             unknown == SortedNames(selected \ available_indexes)
         IN  IF selected = {}
             THEN [error |-> Error("EmptyShockTarget", <<>>, <<>>), selected |-> {}]
             ELSE IF unknown # <<>>
             THEN [error |-> Error("UnknownIndex", unknown, SortedNames(available_indexes)),
                   selected |-> {}]
             ELSE [error |-> NoError, selected |-> selected]

\* the shift without the mask: every row
ShiftRowsAll(rows, selected_indexes, shift) ==
    [i \in 1..Len(rows) |-> [rows[i] EXCEPT !.FwdRate = FAdd(rows[i].FwdRate, shift)]]

\* df.loc[mask, "FwdRate"] = df.loc[mask, "FwdRate"].astype(float) + shift
ShiftRows(rows, selected_indexes, shift) ==
    [i \in 1..Len(rows) |->
        IF AsStr(rows[i].IndexName) \in selected_indexes
        THEN [rows[i] EXCEPT !.FwdRate = FAdd(rows[i].FwdRate, shift)]
        ELSE rows[i]]

NoShock == ParallelShock("", 0)

IdleFrame ==
    [pc |-> "idle", base_set |-> NoSet, shock |-> NoShock, apply_to |-> ApplyToNone,
     df_shifted |-> 0, selected_indexes |-> {}, shifted_curves |-> EmptyMap,
     result |-> NoSet, error |-> NoError]

IdleBatch ==
    [pc |-> "idle", shocks |-> <<>>, apply_to |-> ApplyToNone, i |-> 0,
     out |-> [n \in {} |-> NoSet], error |-> NoError]

Callers == DOMAIN frames

\* the objects some reference still reaches
FrameIds(h, f) ==
    SetIds(h, f.base_set) \cup SetIds(h, f.result)
    \cup (IF f.df_shifted = 0 THEN {} ELSE {f.df_shifted})
    \cup {f.shifted_curves[n] : n \in DOMAIN f.shifted_curves}
    \cup {h[f.shifted_curves[n]].points : n \in DOMAIN f.shifted_curves}

BatchIds(h, b) == UNION {SetIds(h, b.out[n]) : n \in DOMAIN b.out}

LiveIds(h, b, fs, bs) ==
    SetIds(h, b) \cup UNION {FrameIds(h, fs[c]) : c \in DOMAIN fs}
    \cup UNION {BatchIds(h, bs[c]) : c \in DOMAIN bs}

\* reference counting: objects nothing refers to any more are freed
Collect(h, b, fs, bs) == Restrict(h, LiveIds(h, b, fs, bs))

----------------------------------------------------------------------------
(* Inputs *)

AnalysisDate == 365 * 54

TenorOf(yf) == CASE yf = 1 -> "1Y" [] yf = 2 -> " 2y" [] OTHER -> "ON"

DateOf(yf) == IF IsNull(yf) THEN AnalysisDate + 1 ELSE AnalysisDate + 365 * yf

Row(ix, yf, r) ==
    [IndexName |-> ix, Tenor |-> TenorOf(yf), FwdRate |-> r,
     TenorDate |-> DateOf(yf), YearFrac |-> yf]

\* rows of the canonical long table: text index names, rates in 1e-5
RowPool ==
    {Row("EUR", 1, 3000), Row("EUR", 2, 3200), Row("USD", 1, -500),
     Row("EUR", NaN, 3000), Row("USD", 1, NaN)}

RECURSIVE SeqsUpTo(_, _)
SeqsUpTo(S, n) ==
    IF n = 0 THEN {<<>>}
    ELSE LET shorter == SeqsUpTo(S, n - 1)
         IN  shorter \cup {Append(s, x) : s \in {t \in shorter : Len(t) = n - 1}, x \in S}

ColsPool ==
    {SeqRange(RequiredCols),
     SeqRange(RequiredCols) \ {"YearFrac"},
     SeqRange(RequiredCols) \ {"IndexName", "FwdRate"}}

TablePool == {Table(cols, rows) : cols \in ColsPool, rows \in SeqsUpTo(RowPool, MaxRows)}

\* two shocks share a name; one shift is zero, one exceeds every rate
ShockPool == {ParallelShock("up", 50), ParallelShock("down", -4000), ParallelShock("up", 0)}

\* apply_to: None, empty, blank names only, known names (bare or padded),
\* unknown names, and mixtures
ApplyToPool ==
    {ApplyToNone,
     ApplyToNames({}), ApplyToNames({"  "}),
     ApplyToNames({"EUR"}), ApplyToNames({" USD ", ""}), ApplyToNames({"EUR", " USD "}),
     ApplyToNames({"GBP"}), ApplyToNames({"EUR", "GBP", " EUR "})}

\* A base set over table t, as load_forward_curve_set builds it (one curve
\* per index of the table); a table no curves can be built from is wrapped
\* by direct construction with an empty curve mapping.
BaseHeap(t) ==
    LET h1 == Alloc(EmptyHeap, t)
        r == IF MissingCols(t) = <<>> THEN RebuildCurves(h1, 1)
             ELSE [heap |-> h1, error |-> "InvalidCurveTable", curves |-> EmptyMap]
    IN  IF r.error = "ok" THEN r ELSE [heap |-> h1, error |-> r.error, curves |-> EmptyMap]

BaseSet(t) == ForwardCurveSet(AnalysisDate, "ACT/365", 1, BaseHeap(t).curves)

Snapshot(h, s) == [ref |-> s, val |-> Deref(h, s), heap |-> Restrict(h, SetIds(h, s))]

NoCtor == [pc |-> "idle", index_name |-> "", points |-> 0, given |-> <<>>, curve |-> 0]

\* no query made yet
NoQueries == <<>>

InitShock(callers, tables) ==
    /\ \E t \in tables :
          /\ heap = BaseHeap(t).heap
          /\ base = BaseSet(t)
          /\ base0 = Snapshot(BaseHeap(t).heap, BaseSet(t))
    /\ frames = [c \in callers |-> IdleFrame]
    /\ batch = [c \in callers |-> IdleBatch]
    /\ chain = 0
    /\ ctor = NoCtor
    /\ qry = NoQueries

----------------------------------------------------------------------------
(* apply_parallel_shock, one action per step *)

\* an exception leaves apply_parallel_shock and, inside a batch, the batch
Raise(c, e) ==
    /\ frames' = [frames EXCEPT ![c].pc = "failed", ![c].error = e]
    /\ batch' = IF batch[c].pc = "call"
                THEN [batch EXCEPT ![c].pc = "failed", ![c].error = e]
                ELSE batch

CallFrame(shock, apply_to) ==
    [IdleFrame EXCEPT !.pc = "validate", !.base_set = base, !.shock = shock,
                      !.apply_to = apply_to]

\* a caller invokes apply_parallel_shock(base, shock, apply_to)
CallWith(c, shocks, applyTos) ==
    /\ frames[c].pc = "idle" /\ batch[c].pc = "idle"
    /\ \E shock \in shocks, apply_to \in applyTos :
          frames' = [frames EXCEPT ![c] = CallFrame(shock, apply_to)]
    /\ UNCHANGED <<heap, base, base0, batch, chain, ctor, qry>>

Call(c) == CallWith(c, ShockPool, ApplyToPool)

\* _validate_curve_points_columns(base_set.points)
Validate(c) ==
    /\ frames[c].pc = "validate"
    /\ LET missing == ValidateCurvePointsColumns(heap[frames[c].base_set.points])
       IN  IF missing # <<>>
           THEN Raise(c, Error("InvalidCurveTable", missing, <<>>))
           ELSE frames' = [frames EXCEPT ![c].pc = "copy"] /\ UNCHANGED batch
    /\ UNCHANGED <<heap, base, base0, chain, ctor, qry>>

\* df_shifted = base_set.points: no copy, the base table itself
CopyTableAlias(h, f) == [heap |-> h, id |-> f.base_set.points]

\* df_shifted = base_set.points.copy(deep=True)
CopyTable(h, f) == [heap |-> Alloc(h, h[f.base_set.points]), id |-> NewId(h)]

Copy(c) ==
    /\ frames[c].pc = "copy"
    /\ LET r == CopyTable(heap, frames[c])
       IN  /\ heap' = r.heap
           /\ frames' = [frames EXCEPT ![c].pc = "resolve", ![c].df_shifted = r.id]
    /\ UNCHANGED <<base, base0, batch, chain, ctor, qry>>

\* the indices are those of the base set's curve mapping
AvailableFromCurves(h, f) == DOMAIN f.base_set.curves

\* available_indexes = set(df_shifted["IndexName"].astype(str).unique().tolist())
AvailableIndexes(h, f) == TableIndexes(h[f.df_shifted])

\* selected_indexes = _normalise_apply_to(apply_to, available_indexes)
Resolve(c) ==
    /\ frames[c].pc = "resolve"
    /\ LET r == NormaliseApplyTo(frames[c].apply_to, AvailableIndexes(heap, frames[c]))
       IN  IF r.error # NoError
           THEN Raise(c, r.error)
           ELSE /\ frames' = [frames EXCEPT ![c].pc = "shift",
                                            ![c].selected_indexes = r.selected]
                /\ UNCHANGED batch
    /\ UNCHANGED <<heap, base, base0, chain, ctor, qry>>

\* the masked in-place update of df_shifted
ShiftTable(h, f) ==
    [h EXCEPT ![f.df_shifted].rows = ShiftRows(@, f.selected_indexes, ShiftDecimal(f.shock))]

Shift(c) ==
    /\ frames[c].pc = "shift"
    /\ heap' = ShiftTable(heap, frames[c])
    /\ frames' = [frames EXCEPT ![c].pc = "rebuild"]
    /\ UNCHANGED <<base, base0, batch, chain, ctor, qry>>

\* shifted_curves = _rebuild_curves(df_shifted)
Rebuild(c) ==
    /\ frames[c].pc = "rebuild"
    /\ LET r == RebuildCurves(heap, frames[c].df_shifted)
       IN  IF r.error # "ok"
           THEN Raise(c, Error(r.error, <<>>, <<>>)) /\ UNCHANGED heap
           ELSE /\ heap' = r.heap
                /\ frames' = [frames EXCEPT ![c].pc = "build", ![c].shifted_curves = r.curves]
                /\ UNCHANGED batch
    /\ UNCHANGED <<base, base0, chain, ctor, qry>>

\* return ForwardCurveSet(analysis_date=..., base=..., points=df_shifted, curves=shifted_curves)
BuildResult(f) ==
    ForwardCurveSet(f.base_set.analysis_date, f.base_set.base, f.df_shifted, f.shifted_curves)

\* the return of apply_parallel_shock; inside a batch, out[shock.name] = <the result>
Build(c) ==
    /\ frames[c].pc = "build"
    /\ IF batch[c].pc = "call"
       THEN /\ batch' = [batch EXCEPT
                  ![c].pc = "loop",
                  ![c].i = @ + 1,
                  ![c].out = [n \in DOMAIN @ \cup {frames[c].shock.name} |->
                                 IF n = frames[c].shock.name THEN BuildResult(frames[c])
                                 ELSE @[n]]]
            /\ frames' = [frames EXCEPT ![c] = IdleFrame]
       ELSE /\ frames' = [frames EXCEPT ![c].pc = "done", ![c].result = BuildResult(frames[c])]
            /\ UNCHANGED batch
    /\ UNCHANGED <<heap, base, base0, chain, ctor, qry>>

----------------------------------------------------------------------------
(* apply_parallel_shock as one call on heap h: what a caller running alone obtains *)

ApplyParallelShock(h, base_set, shock, apply_to) ==
    LET f0 == [IdleFrame EXCEPT !.base_set = base_set, !.shock = shock, !.apply_to = apply_to]
        missing == ValidateCurvePointsColumns(h[base_set.points])
        cp == CopyTable(h, f0)
        f1 == [f0 EXCEPT !.df_shifted = cp.id]
        sel == NormaliseApplyTo(apply_to, AvailableIndexes(cp.heap, f1))
        f2 == [f1 EXCEPT !.selected_indexes = sel.selected]
        rb == RebuildCurves(ShiftTable(cp.heap, f2), cp.id)
        f3 == [f2 EXCEPT !.shifted_curves = rb.curves]
        fail(e) == [heap |-> h, error |-> e, result |-> NoSet]
    IN  IF missing # <<>> THEN fail(Error("InvalidCurveTable", missing, <<>>))
        ELSE IF sel.error # NoError THEN fail(sel.error)
        ELSE IF rb.error # "ok" THEN fail(Error(rb.error, <<>>, <<>>))
        ELSE [heap |-> rb.heap, error |-> NoError, result |-> BuildResult(f3)]

----------------------------------------------------------------------------
(* apply_parallel_shocks, one action per turn of its loop *)

ShocksPool == SeqsUpTo(ShockPool, MaxShocks)

\* a caller invokes apply_parallel_shocks(base, shocks, apply_to): out = {}
BatchCall(c) ==
    /\ frames[c].pc = "idle" /\ batch[c].pc = "idle"
    /\ \E shocks \in ShocksPool, apply_to \in ApplyToPool :
          batch' = [batch EXCEPT ![c] = [IdleBatch EXCEPT !.pc = "loop", !.shocks = shocks,
                                                          !.apply_to = apply_to, !.i = 1]]
    /\ UNCHANGED <<heap, base, base0, frames, chain, ctor, qry>>

\* the loop is exhausted: return out
BatchReturn(c) ==
    /\ batch[c].pc = "loop"
    /\ batch[c].i > Len(batch[c].shocks)
    /\ batch' = [batch EXCEPT ![c].pc = "done"]
    /\ UNCHANGED <<heap, base, base0, frames, chain, ctor, qry>>

\* the shock itself, not its name, is looked up among those already applied
DuplicateShock(b) ==
    b.i <= Len(b.shocks) /\ b.shocks[b.i] \in {b.shocks[j] : j \in 1..(b.i - 1)}

\* if shock.name in out: raise ValueError("Duplicate scenario name ...")
DuplicateName(b) == b.i <= Len(b.shocks) /\ b.shocks[b.i].name \in DOMAIN b.out

BatchDuplicate(c) ==
    /\ batch[c].pc = "loop"
    /\ DuplicateName(batch[c])
    /\ batch' = [batch EXCEPT ![c].pc = "failed",
                              ![c].error = Error("DuplicateScenario",
                                                 <<batch[c].shocks[batch[c].i].name>>, <<>>)]
    /\ UNCHANGED <<heap, base, base0, frames, chain, ctor, qry>>

\* every turn of the loop applies the first shock of the collection
BatchApplyFirst(c) ==
    /\ batch[c].pc = "loop"
    /\ batch[c].i <= Len(batch[c].shocks)
    /\ ~DuplicateName(batch[c])
    /\ frames' = [frames EXCEPT ![c] = CallFrame(batch[c].shocks[1], batch[c].apply_to)]
    /\ batch' = [batch EXCEPT ![c].pc = "call"]
    /\ UNCHANGED <<heap, base, base0, chain, ctor, qry>>

\* otherwise the shock is handed to apply_parallel_shock
BatchApply(c) ==
    /\ batch[c].pc = "loop"
    /\ batch[c].i <= Len(batch[c].shocks)
    /\ ~DuplicateName(batch[c])
    /\ frames' = [frames EXCEPT ![c] = CallFrame(batch[c].shocks[batch[c].i], batch[c].apply_to)]
    /\ batch' = [batch EXCEPT ![c].pc = "call"]
    /\ UNCHANGED <<heap, base, base0, chain, ctor, qry>>

----------------------------------------------------------------------------
(* The callers *)

Returned(c) ==
    \/ batch[c].pc = "idle" /\ frames[c].pc \in {"done", "failed"}
    \/ batch[c].pc \in {"done", "failed"}

\* the caller drops what the call gave it (or the exception) and is ready
\* for its next call; objects nothing refers to any more are freed
Discard(c) ==
    /\ Returned(c)
    /\ frames' = [frames EXCEPT ![c] = IdleFrame]
    /\ batch' = [batch EXCEPT ![c] = IdleBatch]
    /\ heap' = Collect(heap, base, frames', batch')
    /\ UNCHANGED <<base, base0, chain, ctor, qry>>

\* the caller goes on with the shocked set as the base of further shocks
Rebase(c) ==
    /\ batch[c].pc = "idle" /\ frames[c].pc = "done"
    /\ \A d \in Callers \ {c} : frames[d].pc = "idle" /\ batch[d].pc = "idle"
    /\ chain < MaxChain
    /\ chain' = chain + 1
    /\ base' = frames[c].result
    /\ frames' = [frames EXCEPT ![c] = IdleFrame]
    /\ heap' = Collect(heap, base', frames', batch)
    /\ base0' = Snapshot(heap', base')
    /\ UNCHANGED <<batch, ctor, qry>>

ApplyStep(c) ==
    \/ Validate(c)
    \/ Copy(c)
    \/ Resolve(c)
    \/ Shift(c)
    \/ Rebuild(c)
    \/ Build(c)

BatchStep(c) ==
    \/ BatchReturn(c)
    \/ BatchDuplicate(c)
    \/ BatchApply(c)

----------------------------------------------------------------------------
(* Sequential use: one caller, single calls and chains of them *)

Init == InitShock({1}, TablePool)

Next ==
    \E c \in Callers :
        \/ Call(c)
        \/ ApplyStep(c)
        \/ Discard(c)
        \/ Rebase(c)

Spec == Init /\ [][Next]_vars

----------------------------------------------------------------------------
(* Sequential use on a base set put together by hand *)

\* the table some other set was loaded from
OtherTable == Table(SeqRange(RequiredCols), <<Row("GBP", 1, 1000), Row("EUR", 1, 2000)>>)

\* ForwardCurveSet(analysis_date=..., base=..., points=t, curves=...): the
\* dataclass takes whatever mapping it is given, here an empty one or the
\* curves built from another table
DirectHeap(t, curves_given) ==
    LET h1 == Alloc(EmptyHeap, t)
        h2 == Alloc(h1, OtherTable)
        r == RebuildCurves(h2, NewId(h1))
    IN  IF curves_given
        THEN [heap |-> Restrict(r.heap, DOMAIN r.heap \ {NewId(h1)}), curves |-> r.curves]
        ELSE [heap |-> h1, curves |-> EmptyMap]

DirectSet(t, curves_given) ==
    ForwardCurveSet(AnalysisDate, "ACT/365", 1, DirectHeap(t, curves_given).curves)

InitDirect ==
    /\ \E t \in TablePool, curves_given \in BOOLEAN :
          /\ heap = DirectHeap(t, curves_given).heap
          /\ base = DirectSet(t, curves_given)
          /\ base0 = Snapshot(DirectHeap(t, curves_given).heap, DirectSet(t, curves_given))
    /\ frames = [c \in {1} |-> IdleFrame]
    /\ batch = [c \in {1} |-> IdleBatch]
    /\ chain = 0
    /\ ctor = NoCtor
    /\ qry = NoQueries

SpecDirect == InitDirect /\ [][Next]_vars

----------------------------------------------------------------------------
(* Sequential use: one caller, single calls and batches on one base *)

NextBatch ==
    \E c \in Callers :
        \/ Call(c)
        \/ ApplyStep(c)
        \/ BatchCall(c)
        \/ BatchStep(c)
        \/ Discard(c)

SpecBatch == Init /\ [][NextBatch]_vars

----------------------------------------------------------------------------
(* Concurrent use: two callers share one base, their steps interleave *)

MaxConcRows == 2

ConcRowPool == {Row("EUR", 2, 3200), Row("EUR", 1, 3000), Row("USD", 1, -500)}

ConcTablePool == {Table(SeqRange(RequiredCols), rows) : rows \in SeqsUpTo(ConcRowPool, MaxConcRows)}

ConcShockPool == {ParallelShock("up", 50), ParallelShock("down", -25)}

ConcApplyToPool ==
    {ApplyToNone, ApplyToNames({}), ApplyToNames({"EUR"}), ApplyToNames({"EUR", "GBP", " EUR "})}

InitConc == InitShock({1, 2}, ConcTablePool)

ConcCall(c) == CallWith(c, ConcShockPool, ConcApplyToPool)

NextConc ==
    \E c \in Callers :
        \/ ConcCall(c)
        \/ ApplyStep(c)
        \/ Discard(c)

SpecConc == InitConc /\ [][NextConc]_vars

----------------------------------------------------------------------------
(* Direct construction of a ForwardCurve from a caller's list of points *)

PointPool ==
    {CurvePoint(yf, r, TenorOf(yf), DateOf(yf)) : yf \in {1, 2, 3}, r \in {1000, 2000}}

InitCurve ==
    /\ \E given \in SeqsUpTo(PointPool, MaxPoints) :
          /\ heap = Alloc(EmptyHeap, PointList(given))
          /\ ctor = [NoCtor EXCEPT !.pc = "start", !.index_name = "EUR", !.points = 1,
                                   !.given = given]
    /\ base = NoSet
    /\ base0 = [ref |-> NoSet, val |-> NoSet, heap |-> EmptyHeap]
    /\ frames = [c \in {} |-> IdleFrame]
    /\ batch = [c \in {} |-> IdleBatch]
    /\ chain = 0
    /\ qry = NoQueries

\* curve = ForwardCurve(index_name, points)
Construct ==
    /\ ctor.pc = "start"
    /\ LET r == NewForwardCurve(heap, ctor.index_name, ctor.points)
       IN  /\ heap' = r.heap
           /\ ctor' = [ctor EXCEPT !.pc = IF r.error = "ok" THEN "done" ELSE "failed",
                                   !.curve = r.id]
    /\ UNCHANGED <<base, base0, frames, batch, chain, qry>>

NextCurve == Construct

SpecCurve == InitCurve /\ [][NextCurve]_vars

----------------------------------------------------------------------------
(* Queries of a ForwardCurve: discount_factor(t) and zero_rate(t) *)

\* pillars at 0, 1, 2 and 3 years with negative and positive rates; a pillar
\* has year fraction 0 when its tenor date counts no days from the analysis
\* date (tenor "0M", or "ON" from the 30th to the 31st under 30/360)
QueryPointPool ==
    {CurvePoint(yf, r, TenorOf(yf), DateOf(yf)) : yf \in 0..3, r \in {-500, 1000, 2000}}

\* times before, at, between and beyond the pillars: -1/2, 0, 1/2, ..., 7/2
TimePool == {Rat(k, 2) : k \in -1..7}

\* one finished call: its arguments and what it returned or raised
QueryRecord(op, args, error, result) ==
    [op |-> op, args |-> args, error |-> error, result |-> result]

\* the caller's list holds distinct pillars, latest first
InitQuery ==
    /\ \E given \in {g \in SeqsUpTo(QueryPointPool, MaxPoints) :
                        /\ g # <<>>
                        /\ \A i \in 2..Len(g) : g[i].year_frac < g[i - 1].year_frac} :
          /\ heap = Alloc(EmptyHeap, PointList(given))
          /\ ctor = [NoCtor EXCEPT !.pc = "start", !.index_name = "EUR", !.points = 1,
                                   !.given = given]
    /\ base = NoSet
    /\ base0 = [ref |-> NoSet, val |-> NoSet, heap |-> EmptyHeap]
    /\ frames = [c \in {} |-> IdleFrame]
    /\ batch = [c \in {} |-> IdleBatch]
    /\ chain = 0
    /\ qry = NoQueries

\* the points of the constructed curve
QueriedPoints == heap[heap[ctor.curve].points].items

\* curve.discount_factor(t)
DiscountFactorCall ==
    /\ ctor.pc = "done"
    /\ Len(qry) < MaxQueries
    /\ \E t \in TimePool :
          qry' = Append(qry, QueryRecord("discount_factor", <<t>>, NoError,
                                         DiscountFactor(QueriedPoints, t)))
    /\ UNCHANGED <<heap, base, base0, frames, batch, chain, ctor>>

\* curve.zero_rate(t)
ZeroRateCall ==
    /\ ctor.pc = "done"
    /\ Len(qry) < MaxQueries
    /\ \E t \in TimePool :
          qry' = Append(qry, QueryRecord("zero_rate", <<t>>, NoError,
                                         ZeroRate(QueriedPoints, t)))
    /\ UNCHANGED <<heap, base, base0, frames, batch, chain, ctor>>

NextQuery ==
    \/ Construct
    \/ DiscountFactorCall
    \/ ZeroRateCall

SpecQuery == InitQuery /\ [][NextQuery]_vars

----------------------------------------------------------------------------
(* engine/services/market.py: the queries of a ForwardCurveSet *)

\* ForwardCurveSet.available_indices: sorted(self.curves.keys())
AvailableIndices(s) == SortedNames(DOMAIN s.curves)

\* the name is stripped before the lookup
GetStripped(s, index_name) ==
    IF Strip(index_name) \notin DOMAIN s.curves
    THEN [error |-> Error("UnknownIndex", <<index_name>>, AvailableIndices(s)), result |-> 0]
    ELSE [error |-> NoError, result |-> s.curves[Strip(index_name)]]

\* ForwardCurveSet.get: [error, result], result the curve object
Get(s, index_name) ==
    IF index_name \notin DOMAIN s.curves
    THEN [error |-> Error("UnknownIndex", <<index_name>>, AvailableIndices(s)), result |-> 0]
    ELSE [error |-> NoError, result |-> s.curves[index_name]]

\* the names asked for: stripped, None and blank ones dropped, sorted
RequiredNames(required_indices) ==
    SortedNames({Strip(required_indices[i]) :
                    i \in {k \in 1..Len(required_indices) :
                              /\ required_indices[k] # NA
                              /\ Strip(required_indices[k]) # ""}})

\* only the first missing name is reported
MissingFirstOnly(s, required) ==
    LET missing == SelectSeq(required, LAMBDA ix : ix \notin DOMAIN s.curves)
    IN  IF missing = <<>> THEN <<>> ELSE <<missing[1]>>

\* require_indices: missing = [ix for ix in required if ix not in self.curves]
Missing(s, required) == SelectSeq(required, LAMBDA ix : ix \notin DOMAIN s.curves)

\* ForwardCurveSet.require_indices: the error raised, NoError if none
RequireIndices(s, required_indices) ==
    LET missing == Missing(s, RequiredNames(required_indices))
    IN  IF missing # <<>> THEN Error("MissingCurves", missing, AvailableIndices(s))
        ELSE NoError

\* ForwardCurveSet._t: [error, value]
TimeOf(s, d) ==
    LET b == NormalizeDaycountBase(s.base)
    IN  IF b.error # "ok" THEN [error |-> b.error, value |-> RInt(0)]
        ELSE Yearfrac(s.analysis_date, d, b.value)

\* ForwardCurveSet.rate_on_date: [error, result]
RateOnDate(h, s, index_name, d) ==
    LET g == Get(s, index_name)
        t == TimeOf(s, d)
    IN  IF g.error # NoError THEN [error |-> g.error, result |-> RInt(0)]
        ELSE IF t.error # "ok" THEN [error |-> Error(t.error, <<>>, <<>>), result |-> RInt(0)]
        ELSE [error |-> NoError, result |-> ZeroRate(h[h[g.result].points].items, t.value)]

\* ForwardCurveSet.df_on_date: [error, result]
DfOnDate(h, s, index_name, d) ==
    LET g == Get(s, index_name)
        t == TimeOf(s, d)
    IN  IF g.error # NoError THEN [error |-> g.error, result |-> Exp(RInt(0))]
        ELSE IF t.error # "ok" THEN [error |-> Error(t.error, <<>>, <<>>), result |-> Exp(RInt(0))]
        ELSE [error |-> NoError, result |-> DiscountFactor(h[h[g.result].points].items, t.value)]

\* pandas.DataFrame of positions: the column names, the index labels and the
\* rows, each with its rate_type and index_name cells
Positions(columns, index, rows) == [columns |-> columns, index |-> index, rows |-> rows]

Position(rate_type, index_name) == [rate_type |-> rate_type, index_name |-> index_name]

\* at most this many offending rows are reported: [:10]
ReportLimit == 10

\* every position counts as floating
FloatMaskAll(positions) == {i \in 1..Len(positions.rows) : TRUE}

\* float_mask: .astype("string").str.strip().str.lower().eq("float"); a null
\* rate type is not "float"
FloatMask(positions) ==
    {i \in 1..Len(positions.rows) :
        /\ positions.rows[i].rate_type # NA
        /\ Lower(Strip(positions.rows[i].rate_type)) = "float"}

\* missing_index_mask: floating and index_name null or blank
MissingIndexMask(positions) ==
    {i \in FloatMask(positions) :
        \/ positions.rows[i].index_name = NA
        \/ Strip(positions.rows[i].index_name) = ""}

\* the row positions of a mask, in table order
InOrder(positions, mask) ==
    SelectSeq([i \in 1..Len(positions.rows) |-> i], LAMBDA i : i \in mask)

\* every offending row is reported
ReportedRowsAll(positions, row_offset) ==
    LET hits == InOrder(positions, MissingIndexMask(positions))
    IN  [k \in 1..Len(hits) |-> positions.index[hits[k]] + row_offset]

\* rows = [int(i) + row_offset for i in positions.index[missing_index_mask][:10]]
ReportedRows(positions, row_offset) ==
    LET hits == InOrder(positions, MissingIndexMask(positions))
        n == IF Len(hits) < ReportLimit THEN Len(hits) ELSE ReportLimit
    IN  [k \in 1..n |-> positions.index[hits[k]] + row_offset]

\* ForwardCurveSet.require_float_index_coverage with the default column
\* names: the error raised, NoError if none
RequireFloatIndexCoverage(s, positions, row_offset) ==
    LET floats == InOrder(positions, FloatMask(positions))
        required == [k \in 1..Len(floats) |-> Strip(positions.rows[floats[k]].index_name)]
    IN  IF "rate_type" \notin positions.columns
        THEN Error("MissingPositionsColumn", <<"rate_type">>, <<>>)
        ELSE IF "index_name" \notin positions.columns
        THEN Error("MissingPositionsColumn", <<"index_name">>, <<>>)
        ELSE IF FloatMask(positions) = {} THEN NoError
        ELSE IF MissingIndexMask(positions) # {}
        THEN Error("FloatWithoutIndex", ReportedRows(positions, row_offset), <<>>)
        ELSE RequireIndices(s, required)

\* sets as the loader builds them: a table of valid rows, its curves, and the
\* day-count label the file was loaded with
MarketRowPool == {Row("EUR", 2, 3200), Row("EUR", 1, 3000), Row("USD", 1, -500)}

MarketTablePool ==
    {t \in {Table(SeqRange(RequiredCols), rows) : rows \in SeqsUpTo(MarketRowPool, MaxConcRows)} :
        t.rows # <<>> /\ BaseHeap(t).error = "ok"}

MarketSet(t, daycount) == ForwardCurveSet(AnalysisDate, daycount, 1, BaseHeap(t).curves)

MarketSetPool ==
    {[table |-> t, daycount |-> "ACT/365"] : t \in MarketTablePool}
    \cup {[table |-> Table(SeqRange(RequiredCols), <<Row("EUR", 1, 3000), Row("EUR", 2, 3200)>>),
            daycount |-> b] : b \in {" act-360 ", "act/act", "30/360 (US)"}}

InitMarket ==
    /\ \E m \in MarketSetPool :
          /\ heap = BaseHeap(m.table).heap
          /\ base = MarketSet(m.table, m.daycount)
          /\ base0 = Snapshot(BaseHeap(m.table).heap, MarketSet(m.table, m.daycount))
    /\ frames = [c \in {} |-> IdleFrame]
    /\ batch = [c \in {} |-> IdleBatch]
    /\ chain = 0
    /\ ctor = NoCtor
    /\ qry = NoQueries

\* names as callers pass them: known, padded, unknown
LookupNamePool == {"EUR", " EUR ", "GBP"}

\* lists of required names: empty, blanks and None only, padded, repeated,
\* and one asking for three indices
RequiredPool ==
    {<<>>, <<NA, "  ", "">>, <<" EUR ">>, <<"USD", "EUR">>,
     <<"GBP", " USD ", "GBP", "EUR">>, <<"USD", NA, "GBP">>}

\* the day before the analysis date, the analysis date, 2024-03-01 and two
\* years on
DatePool == {AnalysisDate - 1, AnalysisDate, Date(2024, 3, 1), AnalysisDate + 730}

Answer(op, args, r) == QueryRecord(op, args, r.error, r.result)

\* base.available_indices
AvailableIndicesCall ==
    /\ Len(qry) < MaxQueries
    /\ qry' = Append(qry, QueryRecord("available_indices", <<>>, NoError, AvailableIndices(base)))
    /\ UNCHANGED <<heap, base, base0, frames, batch, chain, ctor>>

\* base.get(index_name)
GetCall ==
    /\ Len(qry) < MaxQueries
    /\ \E name \in LookupNamePool :
          qry' = Append(qry, Answer("get", <<name>>, Get(base, name)))
    /\ UNCHANGED <<heap, base, base0, frames, batch, chain, ctor>>

\* base.require_indices(required_indices)
RequireIndicesCall ==
    /\ Len(qry) < MaxQueries
    /\ \E names \in RequiredPool :
          qry' = Append(qry, QueryRecord("require_indices", <<names>>,
                                         RequireIndices(base, names), 0))
    /\ UNCHANGED <<heap, base, base0, frames, batch, chain, ctor>>

\* base.rate_on_date(index_name, d)
RateOnDateCall ==
    /\ Len(qry) < MaxQueries
    /\ \E name \in {"EUR", "GBP"}, d \in DatePool :
          qry' = Append(qry, Answer("rate_on_date", <<name, d>>, RateOnDate(heap, base, name, d)))
    /\ UNCHANGED <<heap, base, base0, frames, batch, chain, ctor>>

\* base.df_on_date(index_name, d)
DfOnDateCall ==
    /\ Len(qry) < MaxQueries
    /\ \E name \in {"EUR", "GBP"}, d \in DatePool :
          qry' = Append(qry, Answer("df_on_date", <<name, d>>, DfOnDate(heap, base, name, d)))
    /\ UNCHANGED <<heap, base, base0, frames, batch, chain, ctor>>

\* positions: floating ones with a known, padded, unknown, blank or null index
\* name, fixed ones and one without a rate type
PositionRowPool ==
    {Position(" FLOAT ", "EUR"), Position("float", " USD "), Position("float", "GBP"),
     Position("float", NA), Position("Float", "  "),
     Position("fixed", "  "), Position("fixed", "GBP"), Position(NA, "GBP")}

\* the default RangeIndex of a frame of n rows
RangeIndex(n) == [i \in 1..n |-> i - 1]

\* twelve rows, eleven of them floating without an index name
LongPositions ==
    Positions({"rate_type", "index_name"}, RangeIndex(12),
              [i \in 1..12 |-> IF i = 3 THEN Position("fixed", NA) ELSE Position("float", NA)])

\* rows kept from a larger frame, with the labels they had there
FilteredPositions ==
    Positions({"rate_type", "index_name"}, <<3, 7>>,
              <<Position("fixed", "GBP"), Position(" FLOAT ", "  ")>>)

PositionsPool ==
    {Positions({"rate_type", "index_name"}, RangeIndex(Len(rows)), rows) :
        rows \in SeqsUpTo(PositionRowPool, MaxPositions)}
    \cup {LongPositions, FilteredPositions,
          Positions({"rate_type"}, RangeIndex(1), <<Position("fixed", "GBP")>>),
          Positions({"index_name"}, RangeIndex(1), <<Position("float", NA)>>)}

\* base.require_float_index_coverage(positions, row_offset=...), made of a set
\* that has not been queried yet
RequireFloatIndexCoverageCall ==
    /\ qry = NoQueries
    /\ \E positions \in PositionsPool, row_offset \in {2, 1} :
          qry' = <<QueryRecord("require_float_index_coverage", <<positions, row_offset>>,
                               RequireFloatIndexCoverage(base, positions, row_offset), 0)>>
    /\ UNCHANGED <<heap, base, base0, frames, batch, chain, ctor>>

NextCoverage == RequireFloatIndexCoverageCall

SpecCoverage == InitMarket /\ [][NextCoverage]_vars

NextMarket ==
    \/ AvailableIndicesCall
    \/ GetCall
    \/ RequireIndicesCall
    \/ RateOnDateCall
    \/ DfOnDateCall

SpecMarket == InitMarket /\ [][NextMarket]_vars

----------------------------------------------------------------------------
(* Calls of the day-count and tenor functions *)

\* nothing is loaded: the functions of daycount.py and tenors.py take values
InitCalendar ==
    /\ heap = EmptyHeap
    /\ base = NoSet
    /\ base0 = [ref |-> NoSet, val |-> NoSet, heap |-> EmptyHeap]
    /\ frames = [c \in {} |-> IdleFrame]
    /\ batch = [c \in {} |-> IdleBatch]
    /\ chain = 0
    /\ ctor = NoCtor
    /\ qry = NoQueries

\* month ends of February in a century year that is no leap year, in a
\* century year that is one, in a common year and in a leap year; days 30
\* and 31; the turn of a year; the analysis date
CalendarPool ==
    {Date(1900, 2, 28), Date(2000, 2, 29), Date(2023, 2, 28), AnalysisDate,
     Date(2023, 12, 31), Date(2024, 1, 1), Date(2024, 1, 30), Date(2024, 1, 31),
     Date(2024, 2, 28), Date(2024, 2, 29), Date(2024, 3, 1), Date(2024, 3, 31),
     Date(2025, 2, 28)}

\* the four canonical bases and one that is none of them
BasePool == {"ACT/360", "ACT/365", "ACT/ACT", "30/360", "BUS/252"}

\* yearfrac(d0, d1, base)
YearfracCall ==
    /\ qry = NoQueries
    /\ \E d0 \in CalendarPool, d1 \in CalendarPool, daycount \in BasePool :
          LET r == Yearfrac(d0, d1, daycount)
          IN  qry' = <<QueryRecord("yearfrac", <<d0, d1, daycount>>, r.error, r.value)>>
    /\ UNCHANGED <<heap, base, base0, frames, batch, chain, ctor>>

\* labels as they come: canonical, synonyms, padded or lower-case, with
\* hyphens, brackets or suffixes, unknown, empty and None
LabelPool == DOMAIN Spelling \cup {NA}

\* normalize_daycount_base(value)
NormalizeDaycountBaseCall ==
    /\ qry = NoQueries
    /\ \E value \in LabelPool :
          LET r == NormalizeDaycountBase(value)
          IN  qry' = <<QueryRecord("normalize_daycount_base", <<value>>, r.error, r.value)>>
    /\ UNCHANGED <<heap, base, base0, frames, batch, chain, ctor>>

\* tenor codes as they come: overnight, weeks, months, years, lower-case or
\* padded, with a sign or a zero, and codes that are none of these
TenorCodePool == DOMAIN TenorSpelling

\* add_tenor(d, tenor)
AddTenorCall ==
    /\ qry = NoQueries
    /\ \E d \in CalendarPool, tenor \in TenorCodePool :
          LET r == AddTenor(d, tenor)
          IN  qry' = <<QueryRecord("add_tenor", <<d, tenor>>, r.error, r.value)>>
    /\ UNCHANGED <<heap, base, base0, frames, batch, chain, ctor>>

NextCalendar ==
    \/ YearfracCall
    \/ NormalizeDaycountBaseCall
    \/ AddTenorCall

SpecCalendar == InitCalendar /\ [][NextCalendar]_vars

----------------------------------------------------------------------------
(* Shocks applied one after another, the rates held as floats *)

\* the float a rate of n * 1e-5 is read as
FloatRate(n) == FloatOfRatio(n, RateScale)

FloatRow(ix, yf, n) == [Row(ix, yf, 0) EXCEPT !.FwdRate = FloatRate(n)]

\* rates 0.03, 0.032 and -0.005
FloatRowPool == {FloatRow("EUR", 1, 3000), FloatRow("EUR", 2, 3200), FloatRow("USD", 1, -500)}

FloatTablePool == SeqsUpTo(FloatRowPool, MaxRows) \ {<<>>}

\* whole basis points: a shift and its opposite, zero, and the sum of two
FloatShockPool ==
    {ParallelShock("up", 50), ParallelShock("down", -50), ParallelShock("flat", 0),
     ParallelShock("twice", 100)}

FloatApplyToPool ==
    {ApplyToNone, ApplyToNames({" EUR "}), ApplyToNames({"GBP"})}

RowIndexes(rows) == {AsStr(rows[i].IndexName) : i \in 1..Len(rows)}

\* df.loc[mask, "FwdRate"] = df.loc[mask, "FwdRate"].astype(float) + shift
ShiftRowsFloat(rows, selected_indexes, shift) ==
    [i \in 1..Len(rows) |->
        IF AsStr(rows[i].IndexName) \in selected_indexes
        THEN [rows[i] EXCEPT !.FwdRate = FloatAdd(rows[i].FwdRate, shift)]
        ELSE rows[i]]

\* the points of one curve of _rebuild_curves, sorted by ForwardCurve
CurvePointsOf(rows, index_name) ==
    LET sub == SelectSeq(rows, LAMBDA r : r.IndexName = index_name)
    IN  SortByYearFrac([i \in 1..Len(sub) |->
                           CurvePoint(sub[i].YearFrac, sub[i].FwdRate,
                                      Upper(Strip(sub[i].Tenor)), sub[i].TenorDate)])

\* _rebuild_curves on rows without nulls: [error, curves]
RebuildCurvesFloat(rows) ==
    LET curves == [n \in RowIndexes(rows) |-> CurvePointsOf(rows, n)]
    IN  IF \E n \in RowIndexes(rows) : NonIncreasing(curves[n])
        THEN [error |-> Error("InvalidCurve", <<>>, <<>>), curves |-> EmptyMap]
        ELSE [error |-> NoError, curves |-> curves]

FloatSet(rows, curves) == [points |-> rows, curves |-> curves]

\* apply_parallel_shock on a set whose table has all columns: [error, result]
ApplyParallelShockFloat(base_set, shock, apply_to) ==
    LET sel == NormaliseApplyTo(apply_to, RowIndexes(base_set.points))
        df_shifted == ShiftRowsFloat(base_set.points, sel.selected, ShiftDecimalFloat(shock))
        rb == RebuildCurvesFloat(df_shifted)
    IN  IF sel.error # NoError THEN [error |-> sel.error, result |-> base_set]
        ELSE IF rb.error # NoError THEN [error |-> rb.error, result |-> base_set]
        ELSE [error |-> NoError, result |-> FloatSet(df_shifted, rb.curves)]

\* the base sets: tables _rebuild_curves builds curves from
InitFloat ==
    /\ heap = EmptyHeap
    /\ base = NoSet
    /\ base0 = [ref |-> NoSet, val |-> NoSet, heap |-> EmptyHeap]
    /\ frames = [c \in {} |-> IdleFrame]
    /\ batch = [c \in {} |-> IdleBatch]
    /\ chain = 0
    /\ ctor = NoCtor
    /\ \E rows \in FloatTablePool :
          /\ RebuildCurvesFloat(rows).error = NoError
          /\ qry = <<QueryRecord("load", <<>>, NoError,
                                 FloatSet(rows, RebuildCurvesFloat(rows).curves))>>

\* apply_parallel_shock(<the set the last call returned>, shock, apply_to)
ApplyParallelShockFloatCall ==
    /\ Len(qry) <= MaxQueries
    /\ qry[Len(qry)].error = NoError
    /\ \E shock \in FloatShockPool, apply_to \in FloatApplyToPool :
          LET r == ApplyParallelShockFloat(qry[Len(qry)].result, shock, apply_to)
          IN  qry' = Append(qry, QueryRecord("apply_parallel_shock", <<shock, apply_to>>,
                                             r.error, r.result))
    /\ UNCHANGED <<heap, base, base0, frames, batch, chain, ctor>>

NextFloat == ApplyParallelShockFloatCall

SpecFloat == InitFloat /\ [][NextFloat]_vars

----------------------------------------------------------------------------
(* Properties *)

Done(c) == batch[c].pc = "idle" /\ frames[c].pc = "done"

Failed(c) == batch[c].pc = "idle" /\ frames[c].pc = "failed"

BaseTable == heap[base.points]

\* C1: whatever apply_parallel_shock and apply_parallel_shocks calls have been
\* made on the base set, finished or failed or under way, the base set still
\* refers to the same objects and their contents (table rows and columns,
\* analysis date, day-count base, curve mapping, every pillar of every curve)
\* are those it had before the first call; and every set a call has returned
\* shares no table, curve or point list with the base.
C1_BaseNeverMutated ==
    /\ base = base0.ref
    /\ Deref(heap, base) = base0.val
    /\ \A c \in Callers :
          /\ frames[c].pc = "done" =>
                SetIds(heap, frames[c].result) \cap SetIds(heap, base) = {}
          /\ \A n \in DOMAIN batch[c].out :
                SetIds(heap, batch[c].out[n]) \cap SetIds(heap, base) = {}

\* a batch of two shocks with a non-zero shift has returned its two sets
C1_Witness ==
    \E c \in Callers :
        /\ batch[c].pc = "done"
        /\ Cardinality(DOMAIN batch[c].out) = 2
        /\ \A i \in 1..Len(batch[c].shocks) : batch[c].shocks[i].shift_bps # 0
        /\ Len(BaseTable.rows) >= 2

\* what a caller running alone on the untouched base obtains
Alone(f) == ApplyParallelShock(base0.heap, base0.ref, f.shock, f.apply_to)

\* the objects a call has created for itself
PrivateIds(f) == FrameIds(heap, f) \ SetIds(heap, f.base_set)

\* C2: two callers apply shocks to the same base with their steps (validate,
\* copy, resolve, shift, rebuild, build) interleaved in any order and without
\* locks. In every reachable state the base is unchanged, no two calls share
\* an object they created, and a call that has finished holds exactly the
\* result (same table, same curves, same dates) or the error it would have
\* obtained running alone on the base.
C2_InterleavingInvisible ==
    /\ base = base0.ref
    /\ Deref(heap, base) = base0.val
    /\ \A c, d \in Callers : c # d => PrivateIds(frames[c]) \cap PrivateIds(frames[d]) = {}
    /\ \A c \in Callers :
          /\ frames[c].pc = "done" =>
                /\ Alone(frames[c]).error = NoError
                /\ Deref(heap, frames[c].result) =
                      Deref(Alone(frames[c]).heap, Alone(frames[c]).result)
          /\ frames[c].pc = "failed" => frames[c].error = Alone(frames[c]).error

\* caller 1 copied the table after caller 2 did and has finished while
\* caller 2 is still rebuilding; the two shifts differ
C2_Witness ==
    /\ frames[1].pc = "done" /\ frames[2].pc = "rebuild"
    /\ frames[1].df_shifted > frames[2].df_shifted
    /\ frames[1].shock.shift_bps # frames[2].shock.shift_bps
    /\ frames[1].selected_indexes \cap frames[2].selected_indexes # {}

\* shift_bps / 10000 in rate units
BpsToRate(bps) == bps * (RateScale \div 10000)

\* the names an explicit apply_to asks for: stripped, blanks dropped
Requested(apply_to) == {Strip(n) : n \in apply_to.names} \ {""}

\* row i of the result is row i of the base with its rate moved by the shift
\* if the row's index is in S, and is equal to it otherwise
RowsShiftedOn(r, b, S, bps) ==
    /\ Len(r) = Len(b)
    /\ \A i \in 1..Len(b) :
          r[i] = [b[i] EXCEPT !.FwdRate = IF b[i].IndexName \in S
                                          THEN b[i].FwdRate + BpsToRate(bps)
                                          ELSE b[i].FwdRate]

AllIndexes(t) == {t.rows[i].IndexName : i \in 1..Len(t.rows)}

\* the indices a call is to shift
Target(f) == IF f.apply_to.isNone THEN AllIndexes(BaseTable) ELSE Requested(f.apply_to)

\* C3: after a successful apply_parallel_shock(base, shock, apply_to), with
\* apply_to=None every row of the result's table has the base row's rate plus
\* shift_bps/10000; with an explicit subset the rows of the requested indices
\* have the base rate plus shift_bps/10000 and every other row has the base
\* row's rate.
C3_RatesShifted ==
    \A c \in Callers :
        Done(c) =>
            RowsShiftedOn(heap[frames[c].result.points].rows, BaseTable.rows,
                          Target(frames[c]), frames[c].shock.shift_bps)

\* a successful call with a non-zero shift on an explicit subset, with rows
\* inside and rows outside the subset
C3_Witness ==
    \E c \in Callers :
        /\ Done(c)
        /\ ~frames[c].apply_to.isNone
        /\ frames[c].shock.shift_bps # 0
        /\ \E i, j \in 1..Len(BaseTable.rows) :
              /\ BaseTable.rows[i].IndexName \in Requested(frames[c].apply_to)
              /\ BaseTable.rows[j].IndexName \notin Requested(frames[c].apply_to)

Names(shocks) == {shocks[i].name : i \in 1..Len(shocks)}

DistinctNames(shocks) ==
    \A i, j \in 1..Len(shocks) : i # j => shocks[i].name # shocks[j].name

BatchEnded(c) == batch[c].pc \in {"done", "failed"}

\* C4 as stated: when apply_parallel_shocks fails with DuplicateScenario no
\* step of apply_parallel_shock has been executed for any shock of the batch:
\* no set is in out and the heap holds nothing but the base set's objects.
C4_NothingBuiltBeforeDuplicate ==
    \A c \in Callers :
        (batch[c].pc = "failed" /\ batch[c].error.kind = "DuplicateScenario") =>
            /\ DOMAIN batch[c].out = {}
            /\ DOMAIN heap = SetIds(heap, base)

\* C4 as the code has it: the name is checked when the loop reaches the shock.
\* No apply_parallel_shock call is ever started for a shock whose name is
\* already in out; when DuplicateScenario is raised at position i, the sets of
\* the i-1 shocks before it (at least one) have been built and are in out,
\* nothing has been copied, shifted or rebuilt for shock i or a later one, and
\* the error names the repeated scenario.
C4_DuplicateFoundWhenReached ==
    \A c \in Callers :
        /\ batch[c].pc = "call" => batch[c].shocks[batch[c].i].name \notin DOMAIN batch[c].out
        /\ batch[c].pc \in {"loop", "call", "failed"} =>
              DistinctNames(SubSeq(batch[c].shocks, 1, batch[c].i - 1))
        /\ (batch[c].pc = "failed" /\ batch[c].error.kind = "DuplicateScenario") =>
              /\ batch[c].i > 1
              /\ DOMAIN batch[c].out = Names(SubSeq(batch[c].shocks, 1, batch[c].i - 1))
              /\ batch[c].shocks[batch[c].i].name \in DOMAIN batch[c].out
              /\ batch[c].error.items = <<batch[c].shocks[batch[c].i].name>>
              /\ frames[c].pc = "idle"
              /\ DOMAIN heap = SetIds(heap, base) \cup BatchIds(heap, batch[c])

\* a batch has failed with DuplicateScenario on a base with rows
C4_Witness ==
    \E c \in Callers :
        /\ batch[c].pc = "failed"
        /\ batch[c].error.kind = "DuplicateScenario"
        /\ Len(BaseTable.rows) > 0

\* a table apply_parallel_shock accepts: all columns, no null year fraction
\* or rate, no two rows of one index with the same year fraction
ValidBaseTable(t) ==
    /\ SeqRange(RequiredCols) \subseteq t.columns
    /\ \A i \in 1..Len(t.rows) : ~IsNull(t.rows[i].YearFrac) /\ ~IsNull(t.rows[i].FwdRate)
    /\ \A i, j \in 1..Len(t.rows) :
          (i # j /\ t.rows[i].IndexName = t.rows[j].IndexName) =>
              t.rows[i].YearFrac # t.rows[j].YearFrac

\* an apply_to apply_parallel_shock accepts on table t
ValidApplyTo(a, t) == a.isNone \/ (Requested(a) # {} /\ Requested(a) \subseteq AllIndexes(t))

ValidArguments(b) == ValidBaseTable(BaseTable) /\ ValidApplyTo(b.apply_to, BaseTable)

AloneInBatch(b, i) == ApplyParallelShock(base0.heap, base0.ref, b.shocks[i], b.apply_to)

\* C5 as stated, second half: whenever two shocks of the collection share a
\* name the call fails with DuplicateScenario.
C5_DuplicateAlwaysReported ==
    \A c \in Callers :
        (BatchEnded(c) /\ ~DistinctNames(batch[c].shocks)) =>
            (batch[c].pc = "failed" /\ batch[c].error.kind = "DuplicateScenario")

\* C5 as the code has it. With pairwise distinct names and a valid base and
\* apply_to the call returns a mapping whose keys are exactly the shock names
\* and whose value for each name is the set apply_parallel_shock(base, that
\* shock, apply_to) returns. If two shocks share a name no mapping is returned:
\* the call fails, with DuplicateScenario when the base and apply_to are valid,
\* and otherwise with the error apply_parallel_shock raises for the first shock.
C5_BatchMapping ==
    \A c \in Callers :
        BatchEnded(c) =>
            LET b == batch[c] IN
            /\ b.pc = "done" =>
                  /\ DistinctNames(b.shocks)
                  /\ DOMAIN b.out = Names(b.shocks)
                  /\ \A i \in 1..Len(b.shocks) :
                        /\ AloneInBatch(b, i).error = NoError
                        /\ Deref(heap, b.out[b.shocks[i].name]) =
                              Deref(AloneInBatch(b, i).heap, AloneInBatch(b, i).result)
            /\ (DistinctNames(b.shocks) /\ ValidArguments(b)) => b.pc = "done"
            /\ ~DistinctNames(b.shocks) =>
                  /\ b.pc = "failed"
                  /\ ValidArguments(b) => b.error.kind = "DuplicateScenario"
                  /\ ~ValidArguments(b) => b.error = AloneInBatch(b, 1).error

\* a batch of two distinctly named shocks on an explicit subset has returned
C5_Witness ==
    \E c \in Callers :
        /\ batch[c].pc = "done"
        /\ Len(batch[c].shocks) = 2
        /\ ~batch[c].apply_to.isNone
        /\ \E i \in 1..Len(BaseTable.rows) :
              BaseTable.rows[i].IndexName \notin Requested(batch[c].apply_to)

Ended(c) == Done(c) \/ Failed(c)

BaseUntouched == base = base0.ref /\ Deref(heap, base) = base0.val

RequiredColumnNames == {"IndexName", "Tenor", "FwdRate", "TenorDate", "YearFrac"}

\* the call has its own copy of the table
HasCopy(f) == f.pc \in {"resolve", "shift", "rebuild", "build", "done"}

\* the call has resolved the indices to shift
HasSelection(f) == f.pc \in {"shift", "rebuild", "build", "done"}

\* C6: apply_parallel_shock on a base with all columns and an explicit apply_to
\* that names at least one index (names are taken stripped, blank ones
\* dropped). If some requested name is not an index of the base table the call
\* fails with UnknownIndex, the error lists every unknown requested name and
\* every available index, nothing is returned, no rate is ever shifted and
\* the base is unchanged. If every requested name is available no
\* UnknownIndex is raised and a successful call has shifted the rows of the
\* requested indices and no other row.
C6_UnknownIndexRejected ==
    \A c \in Callers :
        LET f == frames[c]
            unknown == Requested(f.apply_to) \ AllIndexes(BaseTable)
        IN  (batch[c].pc = "idle" /\ f.pc # "idle" /\ ~f.apply_to.isNone
             /\ Requested(f.apply_to) # {} /\ RequiredColumnNames \subseteq BaseTable.columns) =>
                /\ (Ended(c) /\ unknown # {}) =>
                      /\ Failed(c)
                      /\ f.error.kind = "UnknownIndex"
                      /\ SeqRange(f.error.items) = unknown
                      /\ Len(f.error.items) = Cardinality(unknown)
                      /\ SeqRange(f.error.available) = AllIndexes(BaseTable)
                      /\ f.result = NoSet
                      /\ heap[f.df_shifted].rows = BaseTable.rows
                      /\ BaseUntouched
                /\ HasSelection(f) => unknown = {}
                /\ (Ended(c) /\ unknown = {}) =>
                      /\ f.error.kind # "UnknownIndex"
                      /\ Done(c) => RowsShiftedOn(heap[f.result.points].rows, BaseTable.rows,
                                                  Requested(f.apply_to), f.shock.shift_bps)

\* a call naming a known and an unknown index has failed with UnknownIndex
C6_Witness ==
    \E c \in Callers :
        /\ Failed(c)
        /\ frames[c].error.kind = "UnknownIndex"
        /\ Requested(frames[c].apply_to) \cap AllIndexes(BaseTable) # {}
        /\ Requested(frames[c].apply_to) \ AllIndexes(BaseTable) # {}
        /\ Cardinality(AllIndexes(BaseTable)) = 2

\* C7: apply_parallel_shock on a base with all columns and an explicit apply_to
\* holding no name, or only blank names, fails with EmptyShockTarget: it
\* never gets to select or shift anything. With apply_to=None the call
\* selects every index of the base table and never fails with
\* EmptyShockTarget or UnknownIndex; with an explicit apply_to it selects
\* exactly the names listed, so that only None stands for "all indices".
C7_EmptyTargetRejected ==
    \A c \in Callers :
        LET f == frames[c] IN
        (batch[c].pc = "idle" /\ f.pc # "idle"
         /\ RequiredColumnNames \subseteq BaseTable.columns) =>
            /\ (~f.apply_to.isNone /\ Requested(f.apply_to) = {}) =>
                  /\ ~HasSelection(f)
                  /\ Ended(c) => (Failed(c) /\ f.error.kind = "EmptyShockTarget"
                                  /\ heap[f.df_shifted].rows = BaseTable.rows)
            /\ (Failed(c) /\ f.error.kind = "EmptyShockTarget") =>
                  (~f.apply_to.isNone /\ Requested(f.apply_to) = {})
            /\ (HasSelection(f) /\ f.apply_to.isNone) =>
                  f.selected_indexes = AllIndexes(BaseTable)
            /\ (HasSelection(f) /\ ~f.apply_to.isNone) =>
                  (f.selected_indexes = Requested(f.apply_to) /\ f.selected_indexes # {})
            /\ (Failed(c) /\ f.apply_to.isNone) =>
                  f.error.kind \notin {"EmptyShockTarget", "UnknownIndex"}

\* a call whose apply_to holds only a blank name has failed on a base with rows
C7_Witness ==
    \E c \in Callers :
        /\ Failed(c)
        /\ frames[c].error.kind = "EmptyShockTarget"
        /\ frames[c].apply_to.names = {"  "}
        /\ Len(BaseTable.rows) > 0

\* C8: the column check is the first step of apply_parallel_shock. On a base
\* whose table lacks one of IndexName, Tenor, FwdRate, TenorDate, YearFrac a
\* call never gets past it: it fails with InvalidCurveTable naming the missing
\* columns, whatever apply_to is (also an empty one or one naming an unknown
\* index), and no table has been copied, no index selected and no object
\* created. InvalidCurveTable is raised by this first step only.
C8_ColumnsCheckedFirst ==
    \A c \in Callers :
        LET f == frames[c]
            missing == RequiredColumnNames \ BaseTable.columns
        IN  (batch[c].pc = "idle" /\ f.pc # "idle") =>
                /\ missing # {} =>
                      /\ f.pc \in {"validate", "failed"}
                      /\ f.pc = "failed" =>
                            (f.error.kind = "InvalidCurveTable" /\ SeqRange(f.error.items) = missing)
                      /\ DOMAIN heap = SetIds(heap, base)
                      /\ BaseUntouched
                /\ (f.pc = "failed" /\ f.error.kind = "InvalidCurveTable") =>
                      (missing # {} /\ f.df_shifted = 0 /\ f.selected_indexes = {})
                /\ f.pc \notin {"validate", "failed"} => missing = {}

\* a call with an apply_to that is itself invalid has failed with
\* InvalidCurveTable on a base that lacks the YearFrac column only
C8_Witness ==
    \E c \in Callers :
        /\ Failed(c)
        /\ frames[c].error.kind = "InvalidCurveTable"
        /\ ~ValidApplyTo(frames[c].apply_to, BaseTable)
        /\ ~frames[c].apply_to.isNone
        /\ RequiredColumnNames \ BaseTable.columns = {"YearFrac"}
        /\ Len(BaseTable.rows) > 0

\* the year fractions of the rows of index n, in table order
YearFracsOf(t, n) ==
    LET sub == SelectSeq(t.rows, LAMBDA r : r.IndexName = n)
    IN  [i \in 1..Len(sub) |-> sub[i].YearFrac]

\* no two rows of one index carry the same year fraction (a null equals nothing)
DistinctYearFracs(t) ==
    \A i, j \in 1..Len(t.rows) :
        (i # j /\ t.rows[i].IndexName = t.rows[j].IndexName /\ ~IsNull(t.rows[i].YearFrac)) =>
            t.rows[i].YearFrac # t.rows[j].YearFrac

StrictlyIncreasing(xs) == \A i \in 2..Len(xs) : xs[i - 1] < xs[i]

CurvePoints(h, s, n) == h[h[s.curves[n]].points].items

\* C9: on a base whose table gives every index rows with pairwise distinct
\* year fractions, apply_parallel_shock never fails with InvalidCurve, whatever
\* the shift (positive, zero, or negative beyond every rate) and apply_to; if
\* in addition no cell is null and apply_to is valid the call succeeds. The
\* copy a call works on keeps the index, tenor, tenor date and year fraction
\* of every row, and every curve of a returned set is non-empty with strictly
\* increasing year fractions that are exactly those of the base rows of its
\* index. The base may itself be the result of an earlier shock.
C9_PillarsPreserved ==
    \A c \in Callers :
        LET f == frames[c] IN
        (batch[c].pc = "idle" /\ f.pc # "idle") =>
            /\ (Failed(c) /\ DistinctYearFracs(BaseTable)) => f.error.kind # "InvalidCurve"
            /\ (Ended(c) /\ ValidBaseTable(BaseTable) /\ ValidApplyTo(f.apply_to, BaseTable)) =>
                  Done(c)
            /\ HasCopy(f) =>
                  /\ Len(heap[f.df_shifted].rows) = Len(BaseTable.rows)
                  /\ \A i \in 1..Len(BaseTable.rows) :
                        LET r == heap[f.df_shifted].rows[i]
                            b == BaseTable.rows[i]
                        IN  /\ r.IndexName = b.IndexName
                            /\ r.YearFrac = b.YearFrac
                            /\ r.Tenor = b.Tenor
                            /\ r.TenorDate = b.TenorDate
            /\ Done(c) =>
                  /\ DOMAIN f.result.curves = AllIndexes(BaseTable)
                  /\ \A n \in DOMAIN f.result.curves :
                        LET xs == [i \in 1..Len(CurvePoints(heap, f.result, n)) |->
                                      CurvePoints(heap, f.result, n)[i].year_frac]
                        IN  /\ Len(xs) > 0
                            /\ StrictlyIncreasing(xs)
                            /\ Len(xs) = Len(YearFracsOf(BaseTable, n))
                            /\ SeqRange(xs) = SeqRange(YearFracsOf(BaseTable, n))

\* a negative shift larger than every rate has been applied to a set that is
\* itself the result of a shock and whose table lists an index's rows by
\* decreasing year fraction
C9_Witness ==
    \E c \in Callers :
        /\ Done(c)
        /\ chain = 1
        /\ frames[c].shock.shift_bps < 0
        /\ \E i \in 1..Len(BaseTable.rows) :
              BaseTable.rows[i].FwdRate + BpsToRate(frames[c].shock.shift_bps) < 0
        /\ \E i, j \in 1..Len(BaseTable.rows) :
              /\ i < j
              /\ BaseTable.rows[i].IndexName = BaseTable.rows[j].IndexName
              /\ BaseTable.rows[i].YearFrac > BaseTable.rows[j].YearFrac

\* the multiset of the elements of a sequence
CountIn(s, x) == Cardinality({i \in 1..Len(s) : s[i] = x})

IsPermutation(s, t) == Len(s) = Len(t) /\ \A x \in SeqRange(s) \cup SeqRange(t) : CountIn(s, x) = CountIn(t, x)

SharedYearFrac(s) == \E i, j \in 1..Len(s) : i # j /\ s[i].year_frac = s[j].year_frac

\* C10: ForwardCurve(index_name, points) fails with InvalidCurve exactly when
\* the points are empty or two of them have the same year fraction; when it
\* succeeds the curve's points are in strictly increasing year_frac order and
\* are a permutation of the points given. The sort comes before the check: the
\* order in which the points are given never makes the construction fail.
C10_ConstructionSortsThenValidates ==
    /\ ctor.pc \in {"done", "failed"} =>
          (ctor.pc = "failed" <=> (ctor.given = <<>> \/ SharedYearFrac(ctor.given)))
    /\ ctor.pc = "done" =>
          LET pts == heap[heap[ctor.curve].points].items IN
          /\ heap[ctor.curve].index_name = ctor.index_name
          /\ StrictlyIncreasing([i \in 1..Len(pts) |-> pts[i].year_frac])
          /\ IsPermutation(pts, ctor.given)

\* a curve has been built from three points given in decreasing order
C10_Witness ==
    /\ ctor.pc = "done"
    /\ Len(ctor.given) = 3
    /\ ctor.given[1].year_frac > ctor.given[2].year_frac
    /\ ctor.given[2].year_frac > ctor.given[3].year_frac

\* the finished calls of one operation
CallsOf(op) == {i \in 1..Len(qry) : qry[i].op = op}

AllRatesPositive(pts) == \A i \in 1..Len(pts) : pts[i].rate > 0

\* every pillar lies after the analysis date and rate * year_frac grows from
\* pillar to pillar
ProductsIncreasing(pts) ==
    /\ \A i \in 1..Len(pts) : pts[i].year_frac > 0
    /\ \A i \in 2..Len(pts) :
          pts[i - 1].rate * pts[i - 1].year_frac < pts[i].rate * pts[i].year_frac

\* C11 as stated: on a curve whose pillar rates are all positive, of two
\* discount factors queried at 0 <= t1 < t2 the later one is the smaller.
C11_DecreasingWhenRatesPositive ==
    \A i, j \in CallsOf("discount_factor") :
        (/\ ctor.pc = "done"
         /\ AllRatesPositive(QueriedPoints)
         /\ RLe(RInt(0), qry[i].args[1])
         /\ RLt(qry[i].args[1], qry[j].args[1])) =>
            RLt(Log(qry[j].result), Log(qry[i].result))

\* C11: on a curve whose pillars all have a positive year fraction and a
\* positive rate and whose products rate_i * year_frac_i strictly increase
\* from each pillar to the next, of two discount factors queried at
\* 0 <= t1 < t2 the later one is strictly smaller; ln DF is 0 at t = 0.
C11_DecreasingWhenProductsIncrease ==
    \A i, j \in CallsOf("discount_factor") :
        (/\ ctor.pc = "done"
         /\ AllRatesPositive(QueriedPoints)
         /\ ProductsIncreasing(QueriedPoints)
         /\ RLe(RInt(0), qry[i].args[1])
         /\ RLt(qry[i].args[1], qry[j].args[1])) =>
            /\ RLt(Log(qry[j].result), Log(qry[i].result))
            /\ qry[i].args[1] = RInt(0) => Log(qry[i].result) = RInt(0)

\* two discount factors have been queried on a curve of two pillars with
\* falling rates and growing products, one between the pillars and one beyond
\* the last
C11_Witness ==
    /\ ctor.pc = "done"
    /\ Len(QueriedPoints) = 2
    /\ AllRatesPositive(QueriedPoints)
    /\ ProductsIncreasing(QueriedPoints)
    /\ QueriedPoints[1].rate > QueriedPoints[2].rate
    /\ \E i, j \in CallsOf("discount_factor") :
          /\ qry[i].args[1] = Rat(3, 2)
          /\ qry[j].args[1] = Rat(7, 2)

\* the point (t, ln) lies on the line through (x0, y0) and (x1, y1), x0 # x1:
\* (ln - y0) * (x1 - x0) = (t - x0) * (y1 - y0), all terms cleared of fractions
OnLine(t, ln, x0, y0, x1, y1) ==
    (ln.n - y0 * ln.d) * (x1 - x0) * t.d = (t.n - x0 * t.d) * (y1 - y0) * ln.d

\* ln DF of pillar i: -rate_i * year_frac_i
PillarLn(pts, i) == -(pts[i].rate * pts[i].year_frac)

\* the position of the smallest pillar >= t
Bracket(pts, t) ==
    CHOOSE j \in 1..Len(pts) :
        /\ RLe(t, RInt(pts[j].year_frac))
        /\ \A k \in 1..(j - 1) : RLt(RInt(pts[k].year_frac), t)

\* C12: on a curve with at least two pillars, for first pillar < t <= last
\* pillar, ln discount_factor(t) lies on the line through the pillars
\* (x_{j-1}, -r_{j-1} x_{j-1}) and (x_j, -r_j x_j), x_j the smallest pillar
\* >= t; for t equal to a pillar's year_frac it is that pillar's own
\* -rate * year_frac.
C12_InterpolatedBetweenBrackets ==
    \A i \in CallsOf("discount_factor") :
        LET t == qry[i].args[1]
            ln == Log(qry[i].result)
            pts == QueriedPoints
            n == Len(pts)
        IN  (/\ ctor.pc = "done"
             /\ n >= 2
             /\ RLt(RInt(pts[1].year_frac), t)
             /\ RLe(t, RInt(pts[n].year_frac))) =>
                LET j == Bracket(pts, t) IN
                /\ j >= 2
                /\ OnLine(t, ln, pts[j - 1].year_frac, PillarLn(pts, j - 1),
                                 pts[j].year_frac, PillarLn(pts, j))
                /\ t = RInt(pts[j].year_frac) => ln = RInt(PillarLn(pts, j))

\* on a curve of three pillars with three different slopes, discount factors
\* have been queried at the middle pillar and inside the last segment
C12_Witness ==
    /\ ctor.pc = "done"
    /\ Len(QueriedPoints) = 3
    /\ QueriedPoints[1].rate # QueriedPoints[2].rate
    /\ QueriedPoints[2].rate # QueriedPoints[3].rate
    /\ \E i, j \in CallsOf("discount_factor") :
          /\ qry[i].args[1] = RInt(2)
          /\ qry[j].args[1] = Rat(5, 2)

\* ln = -rate * t, the projection of a flat zero rate
OnFlatZero(t, ln, rate) == ln.n * t.d = -(rate * t.n * ln.d)

\* a discount factor queried at or beyond the last of at least two pillars
BeyondLast(i) ==
    /\ ctor.pc = "done"
    /\ i \in CallsOf("discount_factor")
    /\ Len(QueriedPoints) >= 2
    /\ RLe(RInt(QueriedPoints[Len(QueriedPoints)].year_frac), qry[i].args[1])

\* C13 as stated: at or beyond the last pillar ln DF continues the line
\* through the last two pillars, and beyond the last pillar it differs from
\* -r_n * t whenever the last two pillar rates differ.
C13_TailDiffersWhenRatesDiffer ==
    \A i \in 1..Len(qry) :
        BeyondLast(i) =>
            LET t == qry[i].args[1]
                ln == Log(qry[i].result)
                pts == QueriedPoints
                n == Len(pts)
            IN  /\ OnLine(t, ln, pts[n - 1].year_frac, PillarLn(pts, n - 1),
                                 pts[n].year_frac, PillarLn(pts, n))
                /\ (pts[n].rate # pts[n - 1].rate /\ RLt(RInt(pts[n].year_frac), t)) =>
                      ~OnFlatZero(t, ln, pts[n].rate)

\* C13: on a curve with at least two pillars, for t at or beyond the last
\* pillar x_n, ln discount_factor(t) = ln DF_n + (t - x_n) * (ln DF_n -
\* ln DF_{n-1}) / (x_n - x_{n-1}); for t > x_n it differs from the flat zero
\* rate projection -r_n * t whenever the last two pillar rates differ and
\* the pillar before the last has a year fraction other than 0.
C13_TailContinuesLastSlope ==
    \A i \in 1..Len(qry) :
        BeyondLast(i) =>
            LET t == qry[i].args[1]
                ln == Log(qry[i].result)
                pts == QueriedPoints
                n == Len(pts)
            IN  /\ OnLine(t, ln, pts[n - 1].year_frac, PillarLn(pts, n - 1),
                                 pts[n].year_frac, PillarLn(pts, n))
                /\ (/\ pts[n].rate # pts[n - 1].rate
                    /\ pts[n - 1].year_frac # 0
                    /\ RLt(RInt(pts[n].year_frac), t)) =>
                      ~OnFlatZero(t, ln, pts[n].rate)

\* a discount factor has been queried beyond the last of three pillars whose
\* last two rates differ
C13_Witness ==
    \E i \in 1..Len(qry) :
        /\ BeyondLast(i)
        /\ Len(QueriedPoints) = 3
        /\ QueriedPoints[2].rate # QueriedPoints[3].rate
        /\ qry[i].args[1] = Rat(7, 2)
        /\ ~OnFlatZero(qry[i].args[1], Log(qry[i].result), QueriedPoints[3].rate)

\* C14: discount_factor(t) is 1.0 (ln DF = 0) for every t <= 0; for
\* 0 < t <= first pillar x_1, ln discount_factor(t) lies on the line through
\* the anchor (0, 0) and the first pillar (x_1, -r_1 x_1); on a curve with a
\* single pillar it lies on that line for every t > 0, before and beyond the
\* pillar (a single pillar at year fraction 0 coincides with the anchor and
\* gives ln DF = 0).
C14_AnchorToFirstPillar ==
    \A i \in CallsOf("discount_factor") :
        ctor.pc = "done" =>
            LET t == qry[i].args[1]
                ln == Log(qry[i].result)
                pts == QueriedPoints
                x1 == pts[1].year_frac
            IN  /\ RLe(t, RInt(0)) => ln = RInt(0)
                /\ (RLt(RInt(0), t) /\ (Len(pts) = 1 \/ RLe(t, RInt(x1)))) =>
                      IF x1 = 0 THEN ln = RInt(0)
                      ELSE OnLine(t, ln, 0, 0, x1, PillarLn(pts, 1))

\* a curve with the single pillar (2y, r # 0) has been queried before and
\* beyond its pillar
C14_Witness ==
    /\ ctor.pc = "done"
    /\ Len(QueriedPoints) = 1
    /\ QueriedPoints[1].year_frac = 2
    /\ \E i, j \in CallsOf("discount_factor") :
          /\ qry[i].args[1] = RInt(1)
          /\ qry[j].args[1] = RInt(3)
          /\ Log(qry[i].result) = RInt(-(QueriedPoints[1].rate))
          /\ Log(qry[j].result) = RInt(-(3 * QueriedPoints[1].rate))

OrderOf(name) == CHOOSE k \in 1..Len(NameOrder) : NameOrder[k] = name

\* a list of names in strictly ascending string order
Ascending(names) == \A k \in 2..Len(names) : OrderOf(names[k - 1]) < OrderOf(names[k])

\* C16: get(index_name) returns the curve stored under exactly that name when
\* the mapping has it, and otherwise fails with UnknownIndex listing the
\* available indices; available_indices is the ascending list of the
\* mapping's keys, and get succeeds for exactly the names in it (a padded
\* name is not found). No query changes the set or any object it reaches.
C16_GetExactName ==
    /\ \A i \in CallsOf("get") :
          LET name == qry[i].args[1] IN
          /\ name \in DOMAIN base.curves =>
                (qry[i].error = NoError /\ qry[i].result = base.curves[name])
          /\ name \notin DOMAIN base.curves =>
                /\ qry[i].error.kind = "UnknownIndex"
                /\ qry[i].error.items = <<name>>
                /\ Ascending(qry[i].error.available)
                /\ SeqRange(qry[i].error.available) = DOMAIN base.curves
          /\ \A j \in CallsOf("available_indices") :
                (qry[i].error = NoError) <=> (name \in SeqRange(qry[j].result))
    /\ \A j \in CallsOf("available_indices") :
          /\ Ascending(qry[j].result)
          /\ SeqRange(qry[j].result) = DOMAIN base.curves
    /\ qry # NoQueries => BaseUntouched

\* on a set with two indices the list of indices has been read and a get of a
\* padded name has failed
C16_Witness ==
    /\ DOMAIN base.curves = {"EUR", "USD"}
    /\ \E i \in CallsOf("get"), j \in CallsOf("available_indices") :
          /\ qry[i].args[1] = " EUR "
          /\ qry[i].error.kind = "UnknownIndex"
          /\ qry[j].result = <<"EUR", "USD">>

\* the names a list asks for: not None, not blank, stripped
AskedFor(names) == {Strip(names[k]) : k \in {m \in 1..Len(names) : names[m] # NA}} \ {""}

\* C17: require_indices(names) returns without error iff every requested
\* non-blank name (stripped) has a curve in the set; otherwise it fails with
\* one error that lists every missing requested name exactly once, and
\* nothing else, together with all the available indices.
C17_AllMissingListed ==
    \A i \in CallsOf("require_indices") :
        LET names == qry[i].args[1]
            e == qry[i].error
        IN  /\ (e = NoError) <=> (AskedFor(names) \subseteq DOMAIN base.curves)
            /\ e # NoError =>
                  /\ e.kind = "MissingCurves"
                  /\ SeqRange(e.items) = AskedFor(names) \ DOMAIN base.curves
                  /\ Len(e.items) = Cardinality(SeqRange(e.items))
                  /\ SeqRange(e.available) = DOMAIN base.curves
                  /\ Len(e.available) = Cardinality(DOMAIN base.curves)
            /\ BaseUntouched

\* a set holding only EUR has been asked for EUR, USD and GBP (GBP twice) and
\* the error lists both missing names
C17_Witness ==
    \E i \in CallsOf("require_indices") :
        /\ DOMAIN base.curves = {"EUR"}
        /\ qry[i].args[1] = <<"GBP", " USD ", "GBP", "EUR">>
        /\ qry[i].error.items = <<"GBP", "USD">>
        /\ qry[i].error.available = <<"EUR">>

\* the spellings of "float", whatever their case and padding
FloatSpellings == {"float", "Float", "FLOAT", " FLOAT "}

\* the rows of a positions table that are floating
Floating(positions) == {i \in 1..Len(positions.rows) : positions.rows[i].rate_type \in FloatSpellings}

\* the floating rows whose index name is null, empty or blank
Unnamed(positions) == {i \in Floating(positions) : positions.rows[i].index_name \in {NA, "", "  "}}

HasBothColumns(positions) == {"rate_type", "index_name"} \subseteq positions.columns

\* C18: on a positions table with both columns, if some floating position
\* (rate type "float" whatever its case and padding) has a null, empty or
\* blank index name, require_float_index_coverage fails with the error that
\* enumerates the offending rows: at most 10 of them, the first in table
\* order, each as its index label plus the report offset. This error is
\* raised even when another floating position names an index without a
\* curve.
C18_UnnamedFloatsReported ==
    \A i \in CallsOf("require_float_index_coverage") :
        LET positions == qry[i].args[1]
            row_offset == qry[i].args[2]
            e == qry[i].error
            hits == Unnamed(positions)
        IN  (HasBothColumns(positions) /\ hits # {}) =>
                /\ e.kind = "FloatWithoutIndex"
                /\ Len(e.items) = (IF Cardinality(hits) < 10 THEN Cardinality(hits) ELSE 10)
                /\ \A k \in 1..Len(e.items) :
                      \E r \in hits :
                          /\ e.items[k] = positions.index[r] + row_offset
                          /\ Cardinality({q \in hits : q < r}) = k - 1

\* a table with eleven offending rows has been checked: ten are reported, the
\* fixed row between them is skipped and the eleventh is left out
C18_Witness ==
    \E i \in CallsOf("require_float_index_coverage") :
        /\ qry[i].args[1] = LongPositions
        /\ qry[i].args[2] = 2
        /\ qry[i].error.items = <<2, 3, 5, 6, 7, 8, 9, 10, 11, 12>>

\* C19: on a positions table with both columns, require_float_index_coverage
\* returns without error iff every floating position has a non-empty index
\* name and every index a floating position names (stripped) has a curve in
\* the set. Positions that are not floating never make it fail, whatever
\* their index name is, and a table without floating positions passes.
C19_CoverageOfFloatsOnly ==
    \A i \in CallsOf("require_float_index_coverage") :
        LET positions == qry[i].args[1]
            e == qry[i].error
        IN  HasBothColumns(positions) =>
                /\ (e = NoError) <=>
                      /\ Unnamed(positions) = {}
                      /\ \A r \in Floating(positions) :
                            Strip(positions.rows[r].index_name) \in DOMAIN base.curves
                /\ Floating(positions) = {} => e = NoError
                /\ BaseUntouched

\* a check has passed on a table holding a floating position with a curve and
\* a fixed position naming an index without one
C19_Witness ==
    \E i \in CallsOf("require_float_index_coverage") :
        /\ qry[i].error = NoError
        /\ qry[i].args[1].rows = <<Position(" FLOAT ", "EUR"), Position("fixed", "GBP")>>
        /\ "GBP" \notin DOMAIN base.curves

\* the year fraction from the analysis date (2023-12-19) to a date of the
\* pool, counted by hand under the convention a set's label stands for
ExpectedTime(label, d) ==
    CASE label = "ACT/365" -> Rat(d - AnalysisDate, 365)
      [] label = " act-360 " -> Rat(d - AnalysisDate, 360)
      [] label = "act/act" ->
            (CASE d = AnalysisDate -> RInt(0)
               [] d = Date(2024, 3, 1) -> RAdd(Rat(13, 365), Rat(60, 366))
               [] OTHER -> RAdd(RAdd(Rat(13, 365), RInt(1)), Rat(351, 365)))
      [] label = "30/360 (US)" ->
            (CASE d = AnalysisDate -> RInt(0)
               [] d = Date(2024, 3, 1) -> Rat(72, 360)
               [] OTHER -> Rat(719, 360))

\* the points of the curve the base set stores under a name
StoredPoints(name) == heap[heap[base.curves[name]].points].items

\* C20: rate_on_date(index, d) and df_on_date(index, d) fail with UnknownIndex
\* when the set has no curve under the name, whatever the date is; otherwise
\* they fail with InvalidDateOrder when d is before the analysis date, and
\* otherwise return zero_rate(t) and discount_factor(t) of the curve stored
\* under the name, t being the year fraction from the analysis date to d under
\* the set's day-count convention. For d equal to the analysis date the
\* discount factor is 1.0.
C20_QueriesOnDate ==
    \A i \in CallsOf("rate_on_date") \cup CallsOf("df_on_date") :
        LET name == qry[i].args[1]
            d == qry[i].args[2]
            e == qry[i].error
        IN  /\ name \notin DOMAIN base.curves =>
                  (e.kind = "UnknownIndex" /\ e.items = <<name>>)
            /\ (name \in DOMAIN base.curves /\ d < base.analysis_date) =>
                  e.kind = "InvalidDateOrder"
            /\ (name \in DOMAIN base.curves /\ d >= base.analysis_date) =>
                  /\ e = NoError
                  /\ qry[i].op = "rate_on_date" =>
                        qry[i].result = ZeroRate(StoredPoints(name), ExpectedTime(base.base, d))
                  /\ qry[i].op = "df_on_date" =>
                        /\ qry[i].result
                              = DiscountFactor(StoredPoints(name), ExpectedTime(base.base, d))
                        /\ d = base.analysis_date => Log(qry[i].result) = RInt(0)
            /\ BaseUntouched

\* on a set loaded with an ACT/ACT label the discount factor at 2024-03-01 has
\* been read, and a rate has been refused for the day before the analysis date
C20_Witness ==
    /\ base.base = "act/act"
    /\ \E i \in CallsOf("df_on_date"), j \in CallsOf("rate_on_date") :
          /\ qry[i].args = <<"EUR", Date(2024, 3, 1)>>
          /\ qry[i].error = NoError
          /\ Log(qry[i].result) = RMul(RInt(-3000), RAdd(Rat(13, 365), Rat(60, 366)))
          /\ qry[j].args = <<"EUR", AnalysisDate - 1>>
          /\ qry[j].error.kind = "InvalidDateOrder"

CanonicalBases == {"ACT/360", "ACT/365", "ACT/ACT", "30/360"}

\* C21: a yearfrac call with d1 before d0 raises the date-order error under
\* each of the four canonical bases, and a call with d0 = d1 returns exactly 0
\* under each of them, whatever the date (ends of February, the 31st).
C21_OrderAndZero ==
    \A i \in CallsOf("yearfrac") :
        LET d0 == qry[i].args[1]
            d1 == qry[i].args[2]
        IN  qry[i].args[3] \in CanonicalBases =>
               /\ d1 < d0 => qry[i].error = "InvalidDateOrder"
               /\ d0 = d1 => qry[i].error = "ok" /\ qry[i].result = RInt(0)

\* 29 February 2024 to itself under 30/360
C21_Witness ==
    \E i \in CallsOf("yearfrac") :
        /\ qry[i].args = <<Date(2024, 2, 29), Date(2024, 2, 29), "30/360">>
        /\ qry[i].error = "ok"
        /\ qry[i].result = RInt(0)

MonthEndCalls ==
    {i \in CallsOf("yearfrac") :
        qry[i].args = <<Date(2024, 1, 31), Date(2024, 2, 29), "30/360">>}

\* C22 as stated: under 30/360, yearfrac(2024-01-31, 2024-02-29) is 0.0.
C22_MonthEndsGiveZero ==
    \A i \in MonthEndCalls : qry[i].error = "ok" /\ qry[i].result = RInt(0)

\* C22: under 30/360, yearfrac(2024-01-31, 2024-02-29) is 30/360: both days
\* are taken as day 30 (d1 as the end of February after a d0 on day 31, d0 by
\* the clamping of day 31), which leaves the one month between them.
C22_MonthEndsGiveOneMonth ==
    \A i \in MonthEndCalls : qry[i].error = "ok" /\ qry[i].result = Rat(30, 360)

C22_Witness ==
    \E i \in MonthEndCalls : qry[i].result = Rat(1, 12)

NormalizeCalls == CallsOf("normalize_daycount_base")

\* the label upper-cased, with blanks, parentheses and hyphens taken out
StrippedOnly(value) ==
    Join(SelectSeq(UpperChars(Spelling[value]), LAMBDA c : c \notin {" ", "(", ")", "-"}))

Unchanged(label) ==
    \A i \in NormalizeCalls :
        qry[i].args = <<label>> => qry[i].error = "ok" /\ qry[i].result = label

\* C23 as stated: a label is accepted when, upper-cased and with blanks,
\* parentheses and hyphens stripped, it is an entry of the lookup; an accepted
\* label yields one of the four canonical bases, every other one is refused,
\* and a canonical base is returned unchanged.
C23_StrippedSpellingsAccepted ==
    /\ \A i \in NormalizeCalls :
          LET value == qry[i].args[1]
          IN  IF value # NA /\ StrippedOnly(value) \in DOMAIN DaycountBaseMap
              THEN qry[i].error = "ok" /\ qry[i].result \in CanonicalBases
              ELSE qry[i].error = "UnsupportedConvention"
    /\ \A label \in CanonicalBases : Unchanged(label)

\* what is left of each label after trimming and upper-casing, removing
\* blanks, turning hyphens into "/", removing ( ) [ ], rewriting 30/360E as
\* 30E/360, removing US and NASD and shortening FIXED to F
CleanedByHand ==
    ("ACT/360" :> "ACT/360")
    @@ ("ACT/365" :> "ACT/365")
    @@ ("ACT/ACT" :> "ACT/ACT")
    @@ ("30/360" :> "30/360")
    @@ ("ACT360" :> "ACT360")
    @@ ("A/365" :> "A/365")
    @@ ("30E/360" :> "30E/360")
    @@ ("ACTUAL/ACTUAL" :> "ACTUAL/ACTUAL")
    @@ (" act-360 " :> "ACT/360")
    @@ ("act/act" :> "ACT/ACT")
    @@ ("30/360 (US)" :> "30/360")
    @@ ("Actual/365 Fixed" :> "ACTUAL/365F")
    @@ ("A-360" :> "A/360")
    @@ ("ACT/3-60" :> "ACT/3/60")
    @@ ("30/360E" :> "30E/360")
    @@ ("30/360 NASD" :> "30/360")
    @@ ("[30/360]" :> "30/360")
    @@ ("AUSCT/360" :> "ACT/360")
    @@ ("ACT/365.25" :> "ACT/365.25")
    @@ ("BUS/252" :> "B/252")
    @@ ("" :> "")

\* C23: a label is accepted when, trimmed and upper-cased, with blanks
\* removed, hyphens turned into "/", the brackets ( ) [ ] removed, 30/360E
\* rewritten as 30E/360, US and NASD removed and FIXED shortened to F, it is
\* an entry of the lookup; an accepted label yields the canonical base of
\* that entry, one of the four, every other label is refused, and a
\* canonical base is returned unchanged.
C23_CleanedSpellingsAccepted ==
    /\ \A i \in NormalizeCalls :
          LET value == qry[i].args[1]
          IN  IF value # NA /\ CleanedByHand[value] \in DOMAIN DaycountBaseMap
              THEN /\ qry[i].error = "ok"
                   /\ qry[i].result = DaycountBaseMap[CleanedByHand[value]]
                   /\ qry[i].result \in CanonicalBases
              ELSE qry[i].error = "UnsupportedConvention"
    /\ \A label \in CanonicalBases : Unchanged(label)

\* a label with a hyphen where the lookup has none is accepted
C23_Witness ==
    \E i \in NormalizeCalls :
        /\ qry[i].args = <<"A-360">>
        /\ qry[i].error = "ok"
        /\ qry[i].result = "ACT/360"

AddTenorCalls == CallsOf("add_tenor")

\* the overnight codes, as written by callers
OvernightCodes == {"ON", "O/N", "1D", " on ", "1d"}

\* the codes of n weeks, months or years, with the unit and n read by eye
SteppedCodes ==
    ("1W" :> <<"W", 1>>) @@ ("2w" :> <<"W", 2>>) @@ ("3M" :> <<"M", 3>>)
    @@ ("5Y" :> <<"Y", 5>>) @@ ("12M" :> <<"M", 12>>) @@ ("18m" :> <<"M", 18>>)
    @@ ("0M" :> <<"M", 0>>) @@ ("-3M" :> <<"M", -3>>) @@ ("-1Y" :> <<"Y", -1>>)
    @@ ("+1Y" :> <<"Y", 1>>) @@ ("1 M" :> <<"M", 1>>)

\* r has the day of the month of d, or an earlier one when its month ends there
SameDayOrMonthEnd(d, r) ==
    DayOf(r) = DayOf(d) \/ (DayOf(r) < DayOf(d) /\ DayOf(r + 1) = 1)

\* C24: add_tenor returns the next calendar day for ON, O/N and 1D, d moved
\* by n weeks, n calendar months or n calendar years for nW, nM, nY (codes
\* taken trimmed and upper-cased, the day of the month kept or cut to the end
\* of a shorter month), and raises the tenor error for every other code; no
\* date is moved to a business day.
C24_AddTenor ==
    \A i \in AddTenorCalls :
        LET d == qry[i].args[1]
            code == qry[i].args[2]
            r == qry[i].result
        IN  IF code \in OvernightCodes THEN qry[i].error = "ok" /\ r = d + 1
            ELSE IF code \in DOMAIN SteppedCodes
            THEN LET unit == SteppedCodes[code][1]
                     n == SteppedCodes[code][2]
                 IN  /\ qry[i].error = "ok"
                     /\ unit = "W" => r = d + 7 * n
                     /\ unit = "M" =>
                            /\ 12 * YearOf(r) + MonthOf(r) = 12 * YearOf(d) + MonthOf(d) + n
                            /\ SameDayOrMonthEnd(d, r)
                     /\ unit = "Y" =>
                            /\ YearOf(r) = YearOf(d) + n
                            /\ MonthOf(r) = MonthOf(d)
                            /\ SameDayOrMonthEnd(d, r)
            ELSE qry[i].error = "UnsupportedTenor"

\* three months from 31 January 2024 end on 30 April
C24_Witness ==
    \E i \in AddTenorCalls :
        qry[i].args = <<Date(2024, 1, 31), "3M">> /\ qry[i].result = Date(2024, 4, 30)

\* C29 as stated: whatever the date and the code, a date that add_tenor
\* returns is not earlier than the date it was given, codes with a zero or
\* signed magnitude and additions cut to the end of a shorter month included.
C29_NeverEarlier ==
    \A i \in AddTenorCalls :
        qry[i].error = "ok" => qry[i].result >= qry[i].args[1]

RowsOf(t, n) == SelectSeq(t.rows, LAMBDA r : r.IndexName = n)

\* C25: a set returned by apply_parallel_shock has one curve per distinct
\* IndexName of its own table, each with exactly the (YearFrac, FwdRate) rows
\* of its index as pillars, and the analysis date and day-count base of the
\* base set, whether the base set's curve mapping agrees with its table or
\* not and whether the base is itself the result of a shock; the indices an
\* apply_to is validated against are those of the table.
C25_ResultConsistent ==
    \A c \in Callers :
        LET f == frames[c]
            s == f.result
        IN  /\ Done(c) =>
                  /\ DOMAIN s.curves = AllIndexes(heap[s.points])
                  /\ \A n \in DOMAIN s.curves :
                        LET pts == CurvePoints(heap, s, n)
                            sub == RowsOf(heap[s.points], n)
                        IN  /\ Len(pts) = Len(sub)
                            /\ {<<pts[i].year_frac, pts[i].rate>> : i \in 1..Len(pts)}
                                  = {<<sub[i].YearFrac, sub[i].FwdRate>> : i \in 1..Len(sub)}
                  /\ s.analysis_date = base.analysis_date
                  /\ s.base = base.base
                  /\ ~f.apply_to.isNone => Requested(f.apply_to) \subseteq AllIndexes(BaseTable)
            /\ (Failed(c) /\ f.error.kind = "UnknownIndex") =>
                  /\ SeqRange(f.error.items) = Requested(f.apply_to) \ AllIndexes(BaseTable)
                  /\ f.error.items # <<>>
                  /\ SeqRange(f.error.available) = AllIndexes(BaseTable)

\* a shock of the index USD alone succeeds on a base whose table has USD and
\* EUR rows and whose curve mapping has GBP and EUR
C25_Witness ==
    \E c \in Callers :
        /\ Done(c)
        /\ chain = 0
        /\ DOMAIN base.curves = {"EUR", "GBP"}
        /\ AllIndexes(BaseTable) = {"EUR", "USD"}
        /\ Requested(frames[c].apply_to) = {"USD"}
        /\ DOMAIN frames[c].result.curves = {"EUR", "USD"}

\* a batch call that apply_parallel_shock would refuse: the base table lacks
\* a required column, or apply_to is given and names nothing or names an
\* index the base table does not have
InvalidBatchArguments(b) ==
    \/ ~(RequiredColumnNames \subseteq BaseTable.columns)
    \/ /\ ~b.apply_to.isNone
       /\ \/ Requested(b.apply_to) = {}
          \/ ~(Requested(b.apply_to) \subseteq AllIndexes(BaseTable))

\* C26 as stated: apply_parallel_shocks with an invalid apply_to or a base
\* table with missing columns raises an error and returns no mapping, however
\* many shocks it is given, none included.
C26_InvalidAlwaysRejected ==
    \A c \in Callers :
        (BatchEnded(c) /\ InvalidBatchArguments(batch[c])) => batch[c].pc = "failed"

\* C26: apply_parallel_shocks with an invalid apply_to or a base table with
\* missing columns raises the error of apply_parallel_shock and returns no
\* mapping whenever it is given at least one shock; nothing has been put in
\* out by then. Given no shock it validates nothing and returns the empty
\* mapping.
C26_InvalidRejectedWhenShocked ==
    \A c \in Callers :
        (BatchEnded(c) /\ InvalidBatchArguments(batch[c])) =>
            IF batch[c].shocks # <<>>
            THEN /\ batch[c].pc = "failed"
                 /\ batch[c].error.kind \in {"InvalidCurveTable", "EmptyShockTarget", "UnknownIndex"}
                 /\ DOMAIN batch[c].out = {}
            ELSE batch[c].pc = "done" /\ DOMAIN batch[c].out = {}

\* a batch of two shocks has failed on an apply_to that names an index the
\* base table has and one it has not
C26_Witness ==
    \E c \in Callers :
        /\ batch[c].pc = "failed"
        /\ Len(batch[c].shocks) = 2
        /\ batch[c].error.kind = "UnknownIndex"
        /\ Requested(batch[c].apply_to) \cap AllIndexes(BaseTable) # {}

\* C27 as stated: once require_indices(names) has returned without error on
\* a set, get(n) succeeds on that set for every non-blank name n of names,
\* taken exactly as it was passed, padded names included.
C27_ValidatedNamesFound ==
    \A i \in CallsOf("require_indices"), j \in CallsOf("get") :
        LET names == qry[i].args[1]
            n == qry[j].args[1]
        IN  (i < j /\ qry[i].error = NoError /\ n \in SeqRange(names) /\ n \notin {NA, "", "  "}) =>
                qry[j].error = NoError

\* C28 as stated: when ForwardCurve(index_name, points) has returned or
\* failed, the caller's list holds the points it held before the call, in the
\* same order, and the curve's own list is another object.
C28_CallerListUntouched ==
    ctor.pc \in {"done", "failed"} =>
        /\ heap[ctor.points].items = ctor.given
        /\ ctor.pc = "done" => heap[ctor.curve].points # ctor.points

\* the distance between two floats, as a magnitude on the grid
DistanceMag(x, y) ==
    IF x.sign # y.sign THEN AddMag(x.mag, y.mag)
    ELSE IF LessMag(x.mag, y.mag) THEN SubMag(y.mag, x.mag)
    ELSE SubMag(x.mag, y.mag)

\* two floats less than 2^-50 apart (2^-50 < 1e-15)
WithinRounding(x, y) == BitLength(DistanceMag(x, y)) <= GridBits - 50

SameFloat(x, y) == x = y

\* two sets with the same rows and curve points but for the rates, and rates
\* that compare as Same says
SetsAgree(s, t, Same(_, _)) ==
    /\ Len(s.points) = Len(t.points)
    /\ \A i \in 1..Len(s.points) :
          /\ [s.points[i] EXCEPT !.FwdRate = FloatZero] = [t.points[i] EXCEPT !.FwdRate = FloatZero]
          /\ Same(s.points[i].FwdRate, t.points[i].FwdRate)
    /\ DOMAIN s.curves = DOMAIN t.curves
    /\ \A n \in DOMAIN s.curves :
          /\ Len(s.curves[n]) = Len(t.curves[n])
          /\ \A i \in 1..Len(s.curves[n]) :
                /\ [s.curves[n][i] EXCEPT !.rate = FloatZero] = [t.curves[n][i] EXCEPT !.rate = FloatZero]
                /\ Same(s.curves[n][i].rate, t.curves[n][i].rate)

\* the subset an apply_to resolves to on the indexes of a set
Resolved(set, apply_to) == NormaliseApplyTo(apply_to, RowIndexes(set.points)).selected

\* positions k of the chain where two successful shocks on the same resolved
\* subset end
TwoShocks(k) ==
    /\ k \in 3..Len(qry)
    /\ qry[k - 1].error = NoError
    /\ qry[k].error = NoError
    /\ Resolved(qry[k - 2].result, qry[k - 1].args[2]) = Resolved(qry[k - 1].result, qry[k].args[2])

\* the single shock of the sum of the two shifts ending at k, applied to the
\* set the first of the two was applied to
SumShock(k) ==
    ApplyParallelShockFloat(qry[k - 2].result,
                            ParallelShock("sum", qry[k - 1].args[1].shift_bps + qry[k].args[1].shift_bps),
                            qry[k - 1].args[2])

\* the composition law with rates compared as Same says; a 0 bps shock always
\* gives the rates it found
Additive(Same(_, _)) ==
    /\ \A k \in 2..Len(qry) :
          (qry[k].error = NoError /\ qry[k].args[1].shift_bps = 0)
              => SetsAgree(qry[k].result, qry[k - 1].result, SameFloat)
    /\ \A k \in 3..Len(qry) :
          TwoShocks(k) =>
              /\ SumShock(k).error = NoError
              /\ SetsAgree(qry[k].result, SumShock(k).result, Same)
              /\ (qry[k - 1].args[1].shift_bps + qry[k].args[1].shift_bps = 0)
                     => SetsAgree(qry[k].result, qry[k - 2].result, Same)

\* C30 as stated: a shock of a bps and then one of b bps on the same resolved
\* subset give a table and curves with exactly the rates of one shock of
\* (a + b) bps, a 0 bps shock gives exactly the rates it found, +x then -x
\* gives exactly the base rates, and year fractions, tenors and tenor dates
\* are identical. (Violated: 0.03 + 0.005 - 0.005 is 0.029999999999999995.)
C30_ExactlyAdditive == Additive(SameFloat)

\* C30, amended: the same with the rates of the two-shock chain within
\* floating-point rounding (less than 1e-15, for rates below 1 in magnitude)
\* of those of the single shock and, for +x then -x, of the base; a 0 bps
\* shock still gives exactly the rates it found, and year fractions, tenors,
\* tenor dates and the rows outside the subset are identical.
C30_AdditiveUpToRounding == Additive(WithinRounding)

\* +50 bps then -50 bps on all indexes of a table with the rate 0.03 has been
\* applied, and the rate that comes back is not the float 0.03
C30_Witness ==
    /\ Len(qry) = 3
    /\ TwoShocks(3)
    /\ qry[2].args = <<ParallelShock("up", 50), ApplyToNone>>
    /\ qry[3].args = <<ParallelShock("down", -50), ApplyToNone>>
    /\ qry[1].result.points[1].FwdRate = FloatRate(3000)
    /\ qry[3].result.points[1].FwdRate # FloatRate(3000)
    /\ WithinRounding(qry[3].result.points[1].FwdRate, FloatRate(3000))

====
